---- MODULE Spec2Model ----
(***************************************************************************)
(* Model of the grouping-and-relocation batch of imgsetsortr.              *)
(*                                                                         *)
(*  - imgsetsortr.0-4-0.py: process_images_cli (and the identical scan and *)
(*    relocation code of main.start_grouping.task): sort, grouping scan,   *)
(*    relocation of the emitted groups, summary.                           *)
(*  - imgsetsortr.0-0-4_mini.py: ImageSetSorter.process_images with the    *)
(*    `running` / `paused` flags.                                          *)
(*                                                                         *)
(*  - imgsetsortr.0-4-0.py, one machine each: the threshold set by the   *)
(*    CLI and by update_thresholds; pause_or_continue and the elapsed time *)
(*    of the GUI worker; get_image_timestamp; normalize_location; the      *)
(*    enumerator get_image_files; get_place_from_exif_or_xmp with the      *)
(*    geocode cache; process_images_cli run once and again on a source   *)
(*    folder; the worker task() next to the Pause button; the three      *)
(*    reads of a file's timestamp; the Start button and its threads.     *)
(*                                                                         *)
(* Timestamps and thresholds of the batch are integers (ticks of one       *)
(* second); the threshold machine counts hundredths of a second.           *)
(***************************************************************************)
EXTENDS Integers, Sequences, FiniteSets, TLC

VARIABLES
    TIME_DIFF_THRESHOLD, \* global threshold, set from `increment`
    stamp,               \* path -> timestamp the file resolves to while readable
    readable,            \* paths whose timestamp can be resolved right now
    at_source,           \* paths that exist at their source location
    dest,                \* destination entries [dir, name, content]
    image_files,         \* the list image_files (enumeration, then sorted)
    total_files,         \* total_files
    pos,                 \* number of items the scan loop has visited
    groups,              \* groups
    current_group,       \* current_group
    last_timestamp,      \* last_timestamp
    skipped,             \* paths logged "Skipping ... due to missing timestamp"
    idx,                 \* idx of the relocation loop (1-based)
    k,                   \* position of the file loop inside the group
    count,               \* local `count` (Unbound until first assigned)
    group_dir,           \* group_dir of the group being moved
    moved,               \* paths logged "Moved ..."
    failed,              \* paths logged "Failed to move ..."
    mkdir_failed,        \* idx values logged "Failed to create group directory"
    summary,             \* the printed summary, NoSummary before it
    faults,              \* number of environment faults injected so far
    pc,                  \* position of the worker
    \* ---- stable-sort determinism experiment (pure function) ----
    orderA, orderB,      \* two enumeration orders of the same item set
    stampP,              \* timestamps of those items
    thrP,                \* threshold of the experiment
    resA, resB,          \* grouping results of the two orders
    pcP,
    \* ---- imgsetsortr.0-0-4_mini ----
    running, paused,     \* self.running, self.paused
    exit_requested,      \* exit_app has run (root.quit() was called)
    m_stamp,             \* path -> EXIF DateTimeOriginal, None when not readable
    m_groups,            \* groups returned by group_images
    m_total,             \* total_images
    m_i,                 \* index of the group loop (1-based)
    m_j,                 \* index of the file loop inside the group
    m_processed,         \* processed
    m_moved,             \* paths actually moved
    m_dirs,              \* group indices whose directory was created
    m_status,            \* text of status_label summary, NoSummary before
    m_pc,
    \* ---- threshold handling (CLI increment / GUI entry field) ----
    mode,                \* "cli" when -s was given, else "gui"
    increment,           \* args.increment (hundredths of a second)
    time_diff_var,       \* text of the GUI entry field
    TIME_DIFF_THRESHOLD_cs, \* the global threshold in hundredths of a second
    compared,            \* thresholds read by the gap comparisons of the batch
    comparisons_left,    \* comparisons the running batch may still make
    kept,                \* thresholds an unparsable entry had to leave in place
    batch_threshold,     \* the threshold when the running batch started
    batch_compared,      \* thresholds read by all gap comparisons of that batch
    thr_pc,
    \* ---- pause / elapsed-time accounting of the GUI worker ----
    now,                 \* time.time(), in ticks
    start_time,          \* start_time of task()
    pause_event,         \* pause_event.is_set()
    pause_start_time,    \* pause_start_time[0] of main
    total_paused_time,   \* total_paused_time[0] of main
    task_total_paused_time, \* total_paused_time[0] of task()
    snapshot,            \* elapsed of the last snapshot, and the elapsed due
    paused_ticks,        \* ticks the pause flag was set since the batch began
    items_left,          \* items the scan loop still has to visit
    pz_pc,
    \* ---- get_image_timestamp, tier by tier (pure function) ----
    ts_file,             \* what the file system and exifread answer for the path
    ts_result,           \* the value get_image_timestamp returned
    ts_pc,
    \* ---- normalize_location (pure function) ----
    n_input,             \* the string handed to normalize_location
    n_once,              \* normalize_location(n_input)
    n_twice,             \* normalize_location(n_once)
    n_pc,
    \* ---- get_image_files / get_image_files_by_folder (pure function) ----
    e_tree,              \* the directories beneath the source folder
    e_recursive,         \* the recursive flag
    e_other,             \* every directory also holds a file that is no image
    e_returned,          \* the paths the enumerator returned
    e_pc,
    \* ---- get_place_from_exif_or_xmp and the geocode cache ----
    geocode_cache,       \* geocode_cache: (lat, lon) rounded -> place
    calls,               \* resolutions made so far in this process
    lookups,             \* rounded pair -> number of geolocator.reverse calls
    ok_lookups,          \* rounded pair -> lookups that returned an address
    gps_labels,          \* rounded pair -> labels of the resolutions that reached the coordinate tier
    cached_labels,       \* the same, for resolutions from the first cached answer on
    last,                \* the last resolution: result and what the tiers had to offer
    \* ---- process_images_cli run on a source folder, once and again ----
    c_source_exists,     \* os.path.isdir(source)
    c_output_ok,         \* os.makedirs(output, exist_ok=True) succeeds
    c_recursive,         \* args.recurse
    c_stamp,             \* file content -> its capture time
    c_fs,                \* the files beneath source: [dir, name, id]
    c_fs0,               \* c_fs when the current run began
    c_run,               \* number of the current run
    c_enumerated,        \* entries the current run enumerated
    c_groups,            \* groups of the current run
    c_moves,             \* shutil.move calls of the current run
    c_exit,              \* exit status of the current run, None while running
    c_pc,
    \* ---- the GUI worker task() and the Pause button: what runs while paused ----
    w_pause_event,       \* pause_event.is_set(): cleared while the pause is on
    w_items_left,        \* items the scan loop has still to visit
    w_groups_left,       \* groups the relocation loop has still to handle
    w_unreported,        \* units of work done since the last progress snapshot
    w_items_since_pause, \* items classified since the pause was switched on
    w_groups_since_pause, \* groups relocated since the pause was switched on
    w_paused_once,       \* the pause was switched on during the batch
    w_pc,
    \* ---- the three reads of one file's timestamp during a batch ----
    s_on_disk,           \* what get_image_timestamp returns for the file now
    s_sort_key,          \* timestamp part of the file's sort key
    s_curr_time,         \* curr_time of the file's scan iteration
    s_first_time,        \* first_time when the file names its group's directory
    s_pc,
    \* ---- worker threads started by the Start button ----
    g_version,           \* which program: "0-4-0" or "0-0-4_mini"
    g_folders_ok,        \* input and output folder are selected and valid
    g_running,           \* self.running of the mini program
    g_threads,           \* phase of every thread started so far, in start order
    g_pc

batchVars == <<TIME_DIFF_THRESHOLD, stamp, readable, at_source, dest, image_files,
          total_files, pos, groups, current_group, last_timestamp, skipped,
          idx, k, count, group_dir, moved, failed, mkdir_failed, summary,
          faults, pc>>

permVars == <<orderA, orderB, stampP, thrP, resA, resB, pcP>>

miniVars == <<running, paused, exit_requested, m_stamp, m_groups, m_total, m_i, m_j, m_processed, m_moved,
          m_dirs, m_status, m_pc>>

thrVars == <<mode, increment, time_diff_var, TIME_DIFF_THRESHOLD_cs, compared,
            comparisons_left, kept, batch_threshold, batch_compared, thr_pc>>

pauseVars == <<now, start_time, pause_event, pause_start_time, total_paused_time, task_total_paused_time, snapshot, paused_ticks, items_left, pz_pc>>

tsVars == <<ts_file, ts_result, ts_pc>>

normVars == <<n_input, n_once, n_twice, n_pc>>

enumVars == <<e_tree, e_recursive, e_other, e_returned, e_pc>>

placeVars == <<geocode_cache, calls, lookups, ok_lookups, gps_labels, cached_labels, last>>

cliVars == <<c_source_exists, c_output_ok, c_recursive, c_stamp, c_fs, c_fs0, c_run, c_enumerated, c_groups, c_moves, c_exit, c_pc>>

workVars == <<w_pause_event, w_items_left, w_groups_left, w_unreported, w_items_since_pause, w_groups_since_pause, w_paused_once, w_pc>>

stampVars == <<s_on_disk, s_sort_key, s_curr_time, s_first_time, s_pc>>

guiVars == <<g_version, g_folders_ok, g_running, g_threads, g_pc>>

(* variables of the machines added to the three above *)
extVars == <<thrVars, pauseVars, tsVars, normVars, enumVars, placeVars, cliVars, workVars, stampVars, guiVars>>

coreVars == <<batchVars, permVars, miniVars>>

vars == <<batchVars, permVars, miniVars, extVars>>

(* what an action of each added machine leaves alone *)
thrFrame == <<coreVars, pauseVars, tsVars, normVars, enumVars, placeVars, cliVars, workVars, stampVars, guiVars>>

pauseFrame == <<coreVars, thrVars, tsVars, normVars, enumVars, placeVars, cliVars, workVars, stampVars, guiVars>>

tsFrame == <<coreVars, thrVars, pauseVars, normVars, enumVars, placeVars, cliVars, workVars, stampVars, guiVars>>

normFrame == <<coreVars, thrVars, pauseVars, tsVars, enumVars, placeVars, cliVars, workVars, stampVars, guiVars>>

enumFrame == <<coreVars, thrVars, pauseVars, tsVars, normVars, placeVars, cliVars, workVars, stampVars, guiVars>>

placeFrame == <<coreVars, thrVars, pauseVars, tsVars, normVars, enumVars, cliVars, workVars, stampVars, guiVars>>

cliFrame == <<coreVars, thrVars, pauseVars, tsVars, normVars, enumVars, placeVars, workVars, stampVars, guiVars>>

workFrame == <<coreVars, thrVars, pauseVars, tsVars, normVars, enumVars, placeVars, cliVars, stampVars, guiVars>>

stampFrame == <<coreVars, thrVars, pauseVars, tsVars, normVars, enumVars, placeVars, cliVars, workVars, guiVars>>

guiFrame == <<coreVars, thrVars, pauseVars, tsVars, normVars, enumVars, placeVars, cliVars, workVars, stampVars>>

----------------------------------------------------------------------------
(* Bounds of the model *)

NumFiles == 10
MaxBreaks == 1
MaxThreshold == 2
MaxFaults == 2
NumNamesP == 4
NumDupP == 1
MaxStampP == 2
NumMiniFiles == 3
MaxMiniStamp == 2

(* Program constants *)

None == -1
Unbound == -2
DatetimeMax == 1000000
SecondsPerMinute == 60
DefaultThreshold == 1

NoSummary == [groups |-> -1, moved |-> -1, singles |-> -1]

----------------------------------------------------------------------------
(* Helpers over sequences *)

Range(s) == {s[j] : j \in 1..Len(s)}

RECURSIVE SumLen(_)
SumLen(gs) == IF gs = <<>> THEN 0 ELSE Len(Head(gs)) + SumLen(Tail(gs))

Reverse(s) == [j \in 1..Len(s) |-> s[Len(s) + 1 - j]]

----------------------------------------------------------------------------
(* Paths: a directory and a base name (os.path.basename) *)

Path(d, n) == [dir |-> d, name |-> n]
basename(p) == p.name

RootFiles == {Path("root", n) : n \in 1..NumFiles}

(* get_image_timestamp: the resolved instant, None on any exception *)
get_image_timestamp(p, st, rd) == IF p \in rd THEN st[p] ELSE None

(* key of image_files.sort: (get_image_timestamp(x) or datetime.max, basename) *)
SortKey(p, st, rd) ==
    LET t == get_image_timestamp(p, st, rd)
    IN  <<IF t = None THEN DatetimeMax ELSE t, basename(p)>>

KeyLess(a, b) == a[1] < b[1] \/ (a[1] = b[1] /\ a[2] < b[2])

(* list.sort is stable: an item is placed before the first item whose key is
   strictly greater, so items with equal keys keep their enumeration order *)
RECURSIVE InsertStable(_, _, _, _)
InsertStable(sorted, x, st, rd) ==
    IF sorted = <<>> THEN <<x>>
    ELSE IF KeyLess(SortKey(x, st, rd), SortKey(Head(sorted), st, rd))
         THEN <<x>> \o sorted
         ELSE <<Head(sorted)>> \o InsertStable(Tail(sorted), x, st, rd)

RECURSIVE SortStable(_, _, _)
SortStable(s, st, rd) ==
    IF s = <<>> THEN <<>>
    ELSE InsertStable(SortStable(SubSeq(s, 1, Len(s) - 1), st, rd), s[Len(s)], st, rd)

----------------------------------------------------------------------------
(* The grouping scan *)

MinGroupSize == 5

(* mutant: the comparison excludes a gap equal to the threshold *)
SameRun_strict(time_diff, threshold) == time_diff < threshold

(* time_diff <= TIME_DIFF_THRESHOLD *)
SameRun(time_diff, threshold) == time_diff <= threshold

(* mutant: every non-empty run is emitted, whatever its size *)
CloseRun_any(gs, cg) == IF cg # <<>> THEN Append(gs, cg) ELSE gs

(* if len(current_group) >= 5: groups.append(current_group) *)
CloseRun(gs, cg) == IF Len(cg) >= MinGroupSize THEN Append(gs, cg) ELSE gs

(* mutant: an item without timestamp closes the run being built *)
ScanItem_noneCloses(sc, path, curr_time, threshold) ==
    IF curr_time = None
    THEN [sc EXCEPT !.skipped = @ \cup {path},
                    !.groups = CloseRun(@, sc.current_group),
                    !.current_group = <<>>]
    ELSE IF sc.current_group = <<>>
    THEN [sc EXCEPT !.current_group = <<path>>, !.last_timestamp = curr_time]
    ELSE IF SameRun(curr_time - sc.last_timestamp, threshold)
    THEN [sc EXCEPT !.current_group = Append(@, path), !.last_timestamp = curr_time]
    ELSE [sc EXCEPT !.groups = CloseRun(@, sc.current_group),
                    !.current_group = <<path>>,
                    !.last_timestamp = curr_time]

(* mutant: after a gap the new run starts with the last item of the old one *)
ScanItem_overlap(sc, path, curr_time, threshold) ==
    IF curr_time = None
    THEN [sc EXCEPT !.skipped = @ \cup {path}]
    ELSE IF sc.current_group = <<>>
    THEN [sc EXCEPT !.current_group = <<path>>, !.last_timestamp = curr_time]
    ELSE IF SameRun(curr_time - sc.last_timestamp, threshold)
    THEN [sc EXCEPT !.current_group = Append(@, path), !.last_timestamp = curr_time]
    ELSE [sc EXCEPT !.groups = CloseRun(@, sc.current_group),
                    !.current_group = <<sc.current_group[Len(sc.current_group)], path>>,
                    !.last_timestamp = curr_time]

(* one iteration of `for i, path in enumerate(image_files)`;
   sc = [groups, current_group, last_timestamp, skipped] *)
ScanItem(sc, path, curr_time, threshold) ==
    IF curr_time = None
    THEN [sc EXCEPT !.skipped = @ \cup {path}]
    ELSE IF sc.current_group = <<>>
    THEN [sc EXCEPT !.current_group = <<path>>, !.last_timestamp = curr_time]
    ELSE IF SameRun(curr_time - sc.last_timestamp, threshold)
    THEN [sc EXCEPT !.current_group = Append(@, path), !.last_timestamp = curr_time]
    ELSE [sc EXCEPT !.groups = CloseRun(@, sc.current_group),
                    !.current_group = <<path>>,
                    !.last_timestamp = curr_time]

----------------------------------------------------------------------------
(* Relocation helpers *)

(* first_time.strftime("%Y%m%d-%H%M"): the instant truncated to the minute *)
DateTimeStr(t) == t \div SecondsPerMinute

(* get_place_from_exif_or_xmp for files that carry no location metadata: the
   directory-name tier labels the file by its folder; when the file cannot be
   opened the outer handler returns "unknown" *)
get_place_from_exif_or_xmp(p, rd) == IF p \in rd THEN p.dir ELSE "unknown"

(* mutant: the folder name carries no group index *)
FolderName_noIdx(place, first_time, i, c) ==
    [place |-> place, time |-> DateTimeStr(first_time), idx |-> 0, count |-> c]

(* folder_name = f"{place}_{date_time_str}_{idx:02d}_{count}" *)
FolderName(place, first_time, i, c) ==
    [place |-> place, time |-> DateTimeStr(first_time), idx |-> i, count |-> c]

(* content of a file that was in the destination before the batch *)
Preexisting(n) == Path("preexisting", n)

(* shutil.move(file, dest_path) with dest_path a full file path: os.rename
   replaces an existing destination file (and where rename refuses, the
   copy2 + unlink fallback of shutil.move overwrites it as well) *)
DestWrite(d, dir, p) ==
    {e \in d : ~(e.dir = dir /\ e.name = basename(p))}
        \cup {[dir |-> dir, name |-> basename(p), content |-> p]}

(* mutant: a failed move ends the file loop of the run *)
AfterMoveFailure_abort(kk, n) == n + 1

(* except Exception: logger.error("Failed to move"): the file loop goes on *)
AfterMoveFailure(kk, n) == kk + 1

(* mutant: the handler does not `continue` and the file loop runs *)
OnMakedirsFailure_fallthrough(i) == [pc |-> "move", idx |-> i, k |-> 1]

(* except Exception: logger.error("Failed to create group directory"); continue *)
OnMakedirsFailure(i) == [pc |-> "reloc", idx |-> i + 1, k |-> 0]

(* position after the file loop handled item kk of a group of n files *)
Advance(kk, n, i) ==
    IF kk > n THEN [pc |-> "reloc", idx |-> i + 1, k |-> 0]
              ELSE [pc |-> "move", idx |-> i, k |-> kk]

----------------------------------------------------------------------------
(* Inputs of a batch *)

BreakSets == {b \in SUBSET (1..(NumFiles - 1)) : Cardinality(b) <= MaxBreaks}

(* consecutive files are 1s apart, MaxThreshold + 1 apart across a break *)
StampOf(b) ==
    [p \in RootFiles |->
        (p.name - 1) + MaxThreshold * Cardinality({q \in b : q < p.name})]

Enumeration == [j \in 1..NumFiles |-> Path("root", j)]
EnumOrders == {Enumeration, Reverse(Enumeration)}

UnreadableSets == {u \in SUBSET RootFiles : Cardinality(u) <= MaxFaults}

InitBatch ==
    /\ TIME_DIFF_THRESHOLD \in 1..MaxThreshold
    /\ \E b \in BreakSets : stamp = StampOf(b)
    /\ \/ /\ image_files \in EnumOrders
          /\ at_source = RootFiles
          /\ \E u \in UnreadableSets :
                /\ readable = RootFiles \ u
                /\ faults = Cardinality(u)
       \/ /\ image_files = <<>>
          /\ at_source = {}
          /\ readable = {}
          /\ faults = 0
    /\ total_files = Len(image_files)
    /\ dest = {}
    /\ pos = 0
    /\ groups = <<>>
    /\ current_group = <<>>
    /\ last_timestamp = None
    /\ skipped = {}
    /\ idx = 0
    /\ k = 0
    /\ count = Unbound
    /\ group_dir = FolderName("unknown", 0, 0, 0)
    /\ moved = {}
    /\ failed = {}
    /\ mkdir_failed = {}
    /\ summary = NoSummary
    /\ pc = "sort"

----------------------------------------------------------------------------
(* Actions of the batch *)

(* if total_files == 0: print summary of zeros; return *)
EarlyExit ==
    /\ UNCHANGED <<permVars, miniVars, extVars>>
    /\ pc = "sort"
    /\ total_files = 0
    /\ summary' = [groups |-> 0, moved |-> 0, singles |-> 0]
    /\ pc' = "done"
    /\ UNCHANGED <<TIME_DIFF_THRESHOLD, stamp, readable, at_source, dest,
                   image_files, total_files, pos, groups, current_group,
                   last_timestamp, skipped, idx, k, count, group_dir, moved,
                   failed, mkdir_failed, faults>>

(* image_files.sort(key=...); groups = []; current_group = [] *)
Sort ==
    /\ UNCHANGED <<permVars, miniVars, extVars>>
    /\ pc = "sort"
    /\ total_files > 0
    /\ image_files' = SortStable(image_files, stamp, readable)
    /\ pc' = "scan"
    /\ UNCHANGED <<TIME_DIFF_THRESHOLD, stamp, readable, at_source, dest,
                   total_files, pos, groups, current_group, last_timestamp,
                   skipped, idx, k, count, group_dir, moved, failed,
                   mkdir_failed, summary, faults>>

(* one iteration of the scan loop *)
ScanStep ==
    /\ UNCHANGED <<permVars, miniVars, extVars>>
    /\ pc = "scan"
    /\ pos < Len(image_files)
    /\ LET path == image_files[pos + 1]
           sc == ScanItem([groups |-> groups, current_group |-> current_group,
                           last_timestamp |-> last_timestamp, skipped |-> skipped],
                          path, get_image_timestamp(path, stamp, readable),
                          TIME_DIFF_THRESHOLD)
       IN  /\ groups' = sc.groups
           /\ current_group' = sc.current_group
           /\ last_timestamp' = sc.last_timestamp
           /\ skipped' = sc.skipped
    /\ pos' = pos + 1
    /\ UNCHANGED <<TIME_DIFF_THRESHOLD, stamp, readable, at_source, dest,
                   image_files, total_files, idx, k, count, group_dir, moved,
                   failed, mkdir_failed, summary, faults, pc>>

(* after the loop: if len(current_group) >= 5: groups.append(current_group) *)
FinishScan ==
    /\ UNCHANGED <<permVars, miniVars, extVars>>
    /\ pc = "scan"
    /\ pos = Len(image_files)
    /\ groups' = CloseRun(groups, current_group)
    /\ idx' = 1
    /\ pc' = "reloc"
    /\ UNCHANGED <<TIME_DIFF_THRESHOLD, stamp, readable, at_source, dest,
                   image_files, total_files, pos, current_group, last_timestamp,
                   skipped, k, count, group_dir, moved, failed, mkdir_failed,
                   summary, faults>>

(* head of `for idx, group in enumerate(groups, 1)`: first_time resolved,
   os.makedirs(group_dir, exist_ok=True) succeeds *)
BeginGroup ==
    /\ UNCHANGED <<permVars, miniVars, extVars>>
    /\ pc = "reloc"
    /\ idx <= Len(groups)
    /\ LET group == groups[idx]
           first_time == get_image_timestamp(group[1], stamp, readable)
           place == get_place_from_exif_or_xmp(group[1], readable)
       IN  /\ first_time # None
           /\ count' = Len(group)
           /\ group_dir' = FolderName(place, first_time, idx, Len(group))
           /\ \/ UNCHANGED <<dest, faults>>
              \* the directory already exists and holds a file named like a member
              \/ /\ faults < MaxFaults
                 /\ faults' = faults + 1
                 /\ \E j \in 1..Len(group) :
                       dest' = dest \cup
                           {[dir |-> group_dir', name |-> basename(group[j]),
                             content |-> Preexisting(basename(group[j]))]}
    /\ k' = 1
    /\ pc' = "move"
    /\ UNCHANGED <<TIME_DIFF_THRESHOLD, stamp, readable, at_source,
                   image_files, total_files, pos, groups, current_group,
                   last_timestamp, skipped, idx, moved, failed, mkdir_failed,
                   summary>>

(* os.makedirs raises: the error is logged and the group is skipped *)
MakedirsFails ==
    /\ UNCHANGED <<permVars, miniVars, extVars>>
    /\ pc = "reloc"
    /\ idx <= Len(groups)
    /\ faults < MaxFaults
    /\ get_image_timestamp(groups[idx][1], stamp, readable) # None
    /\ faults' = faults + 1
    /\ count' = Len(groups[idx])
    /\ mkdir_failed' = mkdir_failed \cup {idx}
    /\ LET nx == OnMakedirsFailure(idx)
       IN  pc' = nx.pc /\ idx' = nx.idx /\ k' = nx.k
    /\ group_dir' = FolderName(get_place_from_exif_or_xmp(groups[idx][1], readable),
                               get_image_timestamp(groups[idx][1], stamp, readable),
                               idx, Len(groups[idx]))
    /\ UNCHANGED <<TIME_DIFF_THRESHOLD, stamp, readable, at_source, dest,
                   image_files, total_files, pos, groups, current_group,
                   last_timestamp, skipped, moved, failed, summary>>

(* first_time is None: the `if first_time:` block is skipped and the log line
   after it formats `count`, which is unbound unless an earlier group set it *)
FirstTimeMissing ==
    /\ UNCHANGED <<permVars, miniVars, extVars>>
    /\ pc = "reloc"
    /\ idx <= Len(groups)
    /\ get_image_timestamp(groups[idx][1], stamp, readable) = None
    /\ IF count = Unbound
       THEN pc' = "crashed" /\ UNCHANGED idx
       ELSE pc' = "reloc" /\ idx' = idx + 1
    /\ UNCHANGED <<TIME_DIFF_THRESHOLD, stamp, readable, at_source, dest,
                   image_files, total_files, pos, groups, current_group,
                   last_timestamp, skipped, k, count, group_dir, moved, failed,
                   mkdir_failed, summary, faults>>

(* shutil.move(file, dest_path) succeeds *)
MoveOk ==
    /\ UNCHANGED <<permVars, miniVars, extVars>>
    /\ pc = "move"
    /\ k <= Len(groups[idx])
    /\ LET file == groups[idx][k]
           nx == Advance(k + 1, Len(groups[idx]), idx)
       IN  /\ file \in at_source
           /\ dest' = DestWrite(dest, group_dir, file)
           /\ at_source' = at_source \ {file}
           /\ readable' = readable \ {file}
           /\ moved' = moved \cup {file}
           /\ pc' = nx.pc /\ idx' = nx.idx /\ k' = nx.k
    /\ UNCHANGED <<TIME_DIFF_THRESHOLD, stamp, image_files, total_files, pos,
                   groups, current_group, last_timestamp, skipped, count,
                   group_dir, failed, mkdir_failed, summary, faults>>

(* shutil.move raises (source vanished, or an injected I/O error) *)
MoveFails ==
    /\ UNCHANGED <<permVars, miniVars, extVars>>
    /\ pc = "move"
    /\ k <= Len(groups[idx])
    /\ LET file == groups[idx][k]
           nx == Advance(AfterMoveFailure(k, Len(groups[idx])), Len(groups[idx]), idx)
       IN  /\ \/ file \notin at_source /\ UNCHANGED faults
              \/ file \in at_source /\ faults < MaxFaults /\ faults' = faults + 1
           /\ failed' = failed \cup {file}
           /\ pc' = nx.pc /\ idx' = nx.idx /\ k' = nx.k
    /\ UNCHANGED <<TIME_DIFF_THRESHOLD, stamp, readable, at_source, dest,
                   image_files, total_files, pos, groups, current_group,
                   last_timestamp, skipped, count, group_dir, moved,
                   mkdir_failed, summary>>

(* num_groups = len(groups); total_moved = sum(len(g) for g in groups);
   num_singles = total_files - total_moved; print the summary *)
Summarize ==
    /\ UNCHANGED <<permVars, miniVars, extVars>>
    /\ pc = "reloc"
    /\ idx > Len(groups)
    /\ summary' = [groups |-> Len(groups), moved |-> SumLen(groups),
                   singles |-> total_files - SumLen(groups)]
    /\ pc' = "done"
    /\ UNCHANGED <<TIME_DIFF_THRESHOLD, stamp, readable, at_source, dest,
                   image_files, total_files, pos, groups, current_group,
                   last_timestamp, skipped, idx, k, count, group_dir, moved,
                   failed, mkdir_failed, faults>>

(* environment: a file is deleted while the batch runs *)
Vanish ==
    /\ UNCHANGED <<permVars, miniVars, extVars>>
    /\ pc \in {"scan", "reloc", "move"}
    /\ faults < MaxFaults
    /\ \E f \in at_source :
          /\ at_source' = at_source \ {f}
          /\ readable' = readable \ {f}
    /\ faults' = faults + 1
    /\ UNCHANGED <<TIME_DIFF_THRESHOLD, stamp, dest, image_files, total_files,
                   pos, groups, current_group, last_timestamp, skipped, idx, k,
                   count, group_dir, moved, failed, mkdir_failed, summary, pc>>

NextBatch ==
    \/ EarlyExit
    \/ Sort
    \/ ScanStep
    \/ FinishScan
    \/ BeginGroup
    \/ MakedirsFails
    \/ FirstTimeMissing
    \/ MoveOk
    \/ MoveFails
    \/ Summarize
    \/ Vanish

----------------------------------------------------------------------------
(* The grouper as a function of the enumeration order: sort, scan, final close *)

RECURSIVE ScanAll(_, _, _, _, _)
ScanAll(sc, s, st, rd, threshold) ==
    IF s = <<>> THEN sc
    ELSE ScanAll(ScanItem(sc, Head(s), get_image_timestamp(Head(s), st, rd), threshold),
                 Tail(s), st, rd, threshold)

Grouper(order, st, rd, threshold) ==
    LET sc == ScanAll([groups |-> <<>>, current_group |-> <<>>,
                       last_timestamp |-> None, skipped |-> {}],
                      SortStable(order, st, rd), st, rd, threshold)
    IN  CloseRun(sc.groups, sc.current_group)

(* recursive enumeration: NumNamesP files in the root folder and NumDupP files
   of a subfolder that repeat base names of the root folder *)
PermFiles == {Path("root", n) : n \in 1..NumNamesP} \cup {Path("sub", n) : n \in 1..NumDupP}

WalkOrder ==
    [j \in 1..(NumNamesP + NumDupP) |->
        IF j <= NumNamesP THEN Path("root", j) ELSE Path("sub", j - NumNamesP)]

Orders(S) == {s \in [1..Cardinality(S) -> S] : Range(s) = S}

InitPerm ==
    /\ orderA = WalkOrder
    /\ orderB \in Orders(PermFiles)
    /\ stampP \in [PermFiles -> 0..MaxStampP]
    /\ thrP = DefaultThreshold
    /\ resA = <<>>
    /\ resB = <<>>
    /\ pcP = "start"

----------------------------------------------------------------------------
(* imgsetsortr.0-0-4_mini: ImageSetSorter *)

MiniFiles == {Path("root", n) : n \in 1..NumMiniFiles}
MiniListing == [j \in 1..NumMiniFiles |-> Path("root", j)]

(* images.sort(key=lambda x: x[1]): stable sort on the timestamp alone *)
RECURSIVE MiniInsert(_, _, _)
MiniInsert(sorted, x, st) ==
    IF sorted = <<>> THEN <<x>>
    ELSE IF st[x] < st[Head(sorted)]
         THEN <<x>> \o sorted
         ELSE <<Head(sorted)>> \o MiniInsert(Tail(sorted), x, st)

RECURSIVE MiniSort(_, _)
MiniSort(s, st) ==
    IF s = <<>> THEN <<>>
    ELSE MiniInsert(MiniSort(SubSeq(s, 1, Len(s) - 1), st), s[Len(s)], st)

(* the loop of group_images over the sorted images; every run is emitted *)
RECURSIVE MiniChain(_, _, _, _, _)
MiniChain(s, st, threshold, gs, cg) ==
    IF s = <<>> THEN (IF cg # <<>> THEN Append(gs, cg) ELSE gs)
    ELSE IF cg = <<>> \/ st[Head(s)] - st[cg[Len(cg)]] <= threshold
         THEN MiniChain(Tail(s), st, threshold, gs, Append(cg, Head(s)))
         ELSE MiniChain(Tail(s), st, threshold, Append(gs, cg), <<Head(s)>>)

(* group_images: files without EXIF time are dropped before the sort *)
group_images(files, st, threshold) ==
    MiniChain(MiniSort(SelectSeq(files, LAMBDA p : st[p] # None), st),
              st, threshold, <<>>, <<>>)

InitMini ==
    /\ running = FALSE
    /\ paused = FALSE
    /\ exit_requested = FALSE
    /\ m_stamp \in [MiniFiles -> {None} \cup 0..MaxMiniStamp]
    /\ m_groups = <<>>
    /\ m_total \in {0, NumMiniFiles}
    /\ m_i = 0
    /\ m_j = 0
    /\ m_processed = 0
    /\ m_moved = {}
    /\ m_dirs = {}
    /\ m_status = NoSummary
    /\ m_pc = "idle"

(* start_grouping: if self.running: return; else start the worker thread *)
StartGrouping ==
    /\ UNCHANGED <<batchVars, permVars, extVars>>
    /\ m_pc = "idle"
    /\ ~exit_requested
    /\ ~running
    /\ running' = TRUE
    /\ paused' = FALSE
    /\ m_pc' = "begin"
    /\ UNCHANGED <<exit_requested, m_stamp, m_groups, m_total, m_i, m_j,
                   m_processed, m_moved, m_dirs, m_status>>

(* pause_grouping: self.paused = not self.paused *)
PauseGrouping ==
    /\ UNCHANGED <<batchVars, permVars, extVars>>
    /\ ~exit_requested
    /\ m_pc \notin {"idle", "done", "crashed"}
    /\ paused' = ~paused
    /\ UNCHANGED <<running, exit_requested, m_stamp, m_groups, m_total, m_i,
                   m_j, m_processed, m_moved, m_dirs, m_status,
                   m_pc>>

(* exit_app: self.running = False; save_last_folder(); self.root.quit() *)
ExitApp ==
    /\ UNCHANGED <<batchVars, permVars, extVars>>
    /\ ~exit_requested
    /\ m_pc \notin {"idle"}
    /\ running' = FALSE
    /\ exit_requested' = TRUE
    /\ UNCHANGED <<paused, m_stamp, m_groups, m_total, m_i, m_j, m_processed,
                   m_moved, m_dirs, m_status, m_pc>>

(* after root.quit() the main thread leaves mainloop and the interpreter
   exits: the daemon worker thread is stopped wherever it is *)
InterpreterExit ==
    /\ UNCHANGED <<batchVars, permVars, extVars>>
    /\ exit_requested
    /\ m_pc \notin {"idle", "done", "crashed", "killed"}
    /\ m_pc' = "killed"
    /\ UNCHANGED <<running, paused, exit_requested, m_stamp, m_groups, m_total,
                   m_i, m_j, m_processed, m_moved, m_dirs, m_status>>

(* process_images up to the group loop *)
WorkerBegin ==
    /\ UNCHANGED <<batchVars, permVars, extVars>>
    /\ m_pc = "begin"
    /\ IF m_total = 0
       THEN \* "No images found!"
            /\ running' = FALSE
            /\ m_pc' = "done"
            /\ UNCHANGED <<m_groups, m_i>>
       ELSE /\ m_groups' = group_images(MiniListing, m_stamp, DefaultThreshold)
            /\ m_i' = 1
            /\ m_pc' = "group_check"
            /\ UNCHANGED running
    /\ UNCHANGED <<paused, exit_requested, m_stamp, m_total, m_j, m_processed,
                   m_moved, m_dirs, m_status>>

(* for i, group in enumerate(groups, 1): if not self.running or self.paused: *)
WorkerGroupCheck ==
    /\ UNCHANGED <<batchVars, permVars, extVars>>
    /\ m_pc = "group_check"
    /\ m_pc' = IF m_i > Len(m_groups) THEN "finish"
               ELSE IF ~running \/ paused THEN "wait"
               ELSE "mkdir"
    /\ UNCHANGED <<running, paused, exit_requested, m_stamp, m_groups, m_total,
                   m_i, m_j, m_processed, m_moved, m_dirs, m_status>>

(* while self.paused and self.running: sleep; if not self.running: break *)
WorkerWait ==
    /\ UNCHANGED <<batchVars, permVars, extVars>>
    /\ m_pc = "wait"
    /\ ~(paused /\ running)
    /\ m_pc' = IF ~running THEN "finish" ELSE "mkdir"
    /\ UNCHANGED <<running, paused, exit_requested, m_stamp, m_groups, m_total,
                   m_i, m_j, m_processed, m_moved, m_dirs, m_status>>

(* os.makedirs(group_dir, exist_ok=True) *)
WorkerMakedirs ==
    /\ UNCHANGED <<batchVars, permVars, extVars>>
    /\ m_pc = "mkdir"
    /\ m_dirs' = m_dirs \cup {m_i}
    /\ m_j' = 1
    /\ m_pc' = "file_check"
    /\ UNCHANGED <<running, paused, exit_requested, m_stamp, m_groups, m_total,
                   m_i, m_processed, m_moved, m_status>>

(* for image_path, dt in group: if not self.running: break *)
WorkerFileCheck ==
    /\ UNCHANGED <<batchVars, permVars, extVars>>
    /\ m_pc = "file_check"
    /\ IF m_j > Len(m_groups[m_i]) \/ ~running
       THEN m_i' = m_i + 1 /\ m_pc' = "group_check"
       ELSE m_pc' = "file_move" /\ UNCHANGED m_i
    /\ UNCHANGED <<running, paused, exit_requested, m_stamp, m_groups, m_total,
                   m_j, m_processed, m_moved, m_dirs, m_status>>

(* shutil.move(image_path, dest_path); processed += 1 *)
WorkerMoveOk ==
    /\ UNCHANGED <<batchVars, permVars, extVars>>
    /\ m_pc = "file_move"
    /\ m_moved' = m_moved \cup {m_groups[m_i][m_j]}
    /\ m_processed' = m_processed + 1
    /\ m_j' = m_j + 1
    /\ m_pc' = "file_check"
    /\ UNCHANGED <<running, paused, exit_requested, m_stamp, m_groups, m_total,
                   m_i, m_dirs, m_status>>

(* shutil.move raises: nothing catches it, the worker thread ends *)
WorkerMoveFails ==
    /\ UNCHANGED <<batchVars, permVars, extVars>>
    /\ m_pc = "file_move"
    /\ m_pc' = "crashed"
    /\ UNCHANGED <<running, paused, exit_requested, m_stamp, m_groups, m_total,
                   m_i, m_j, m_processed, m_moved, m_dirs, m_status>>

(* status_label: "Grouping complete: {len(groups)} groups, {processed} images
   moved, {total_images - processed} singles left"; self.running = False *)
WorkerFinish ==
    /\ UNCHANGED <<batchVars, permVars, extVars>>
    /\ m_pc = "finish"
    /\ m_status' = [groups |-> Len(m_groups), moved |-> m_processed,
                    singles |-> m_total - m_processed]
    /\ running' = FALSE
    /\ m_pc' = "done"
    /\ UNCHANGED <<paused, exit_requested, m_stamp, m_groups, m_total, m_i,
                   m_j, m_processed, m_moved, m_dirs>>

NextMini ==
    \/ StartGrouping
    \/ PauseGrouping
    \/ ExitApp
    \/ InterpreterExit
    \/ WorkerBegin
    \/ WorkerGroupCheck
    \/ WorkerWait
    \/ WorkerMakedirs
    \/ WorkerFileCheck
    \/ WorkerMoveOk
    \/ WorkerMoveFails
    \/ WorkerFinish

----------------------------------------------------------------------------
(* The other two machines stay idle while the batch is checked *)

PermIdle ==
    /\ orderA = <<>> /\ orderB = <<>>
    /\ stampP = <<>> /\ thrP = 0
    /\ resA = <<>> /\ resB = <<>>
    /\ pcP = "idle"

BatchIdle ==
    /\ TIME_DIFF_THRESHOLD = DefaultThreshold
    /\ stamp = <<>> /\ readable = {} /\ at_source = {} /\ dest = {}
    /\ image_files = <<>> /\ total_files = 0 /\ pos = 0
    /\ groups = <<>> /\ current_group = <<>> /\ last_timestamp = None
    /\ skipped = {} /\ idx = 0 /\ k = 0 /\ count = Unbound
    /\ group_dir = FolderName("unknown", 0, 0, 0)
    /\ moved = {} /\ failed = {} /\ mkdir_failed = {}
    /\ summary = NoSummary /\ faults = 0
    /\ pc = "idle"

MiniIdle ==
    /\ running = FALSE /\ paused = FALSE /\ exit_requested = FALSE
    /\ m_stamp = <<>>
    /\ m_groups = <<>> /\ m_total = 0
    /\ m_i = 0 /\ m_j = 0 /\ m_processed = 0
    /\ m_moved = {} /\ m_dirs = {}
    /\ m_status = NoSummary
    /\ m_pc = "idle"

ThrIdle ==
    /\ mode = "none" /\ increment = 0
    /\ time_diff_var = [parses |-> TRUE, val |-> 0]
    /\ TIME_DIFF_THRESHOLD_cs = 0
    /\ compared = {} /\ comparisons_left = 0 /\ kept = {}
    /\ batch_threshold = 0 /\ batch_compared = {}
    /\ thr_pc = "idle"

PauseIdle ==
    /\ now = 0 /\ start_time = 0 /\ pause_event = TRUE
    /\ pause_start_time = None /\ total_paused_time = 0
    /\ task_total_paused_time = 0
    /\ snapshot = [elapsed |-> 0, due |-> 0, final |-> FALSE]
    /\ paused_ticks = 0 /\ items_left = 0
    /\ pz_pc = "idle"

TsIdle ==
    /\ ts_file = [opens |-> TRUE, exif_reads |-> TRUE, date_str |-> "absent",
                  exif_time |-> 0, mtime_ok |-> TRUE, mtime |-> 0]
    /\ ts_result = None
    /\ ts_pc = "idle"

NormIdle ==
    /\ n_input = <<>> /\ n_once = <<>> /\ n_twice = <<>>
    /\ n_pc = "idle"

EnumIdle ==
    /\ e_tree = {<<>>} /\ e_recursive = FALSE /\ e_other = FALSE
    /\ e_returned = {}
    /\ e_pc = "idle"

PlaceIdle ==
    /\ geocode_cache = <<>> /\ calls = 0
    /\ lookups = <<>> /\ ok_lookups = <<>>
    /\ gps_labels = <<>> /\ cached_labels = <<>>
    /\ last = <<>>

CliIdle ==
    /\ c_source_exists = FALSE /\ c_output_ok = FALSE /\ c_recursive = FALSE
    /\ c_stamp = <<>> /\ c_fs = {} /\ c_fs0 = {}
    /\ c_run = 0 /\ c_enumerated = {} /\ c_groups = <<>> /\ c_moves = 0
    /\ c_exit = None
    /\ c_pc = "idle"

WorkIdle ==
    /\ w_pause_event = TRUE /\ w_items_left = 0 /\ w_groups_left = 0
    /\ w_unreported = 0 /\ w_items_since_pause = 0 /\ w_groups_since_pause = 0
    /\ w_paused_once = FALSE
    /\ w_pc = "idle"

StampIdle ==
    /\ s_on_disk = None /\ s_sort_key = None /\ s_curr_time = None /\ s_first_time = None
    /\ s_pc = "idle"

GuiIdle ==
    /\ g_version = "none" /\ g_folders_ok = FALSE /\ g_running = FALSE
    /\ g_threads = <<>>
    /\ g_pc = "idle"

ExtIdle == ThrIdle /\ PauseIdle /\ TsIdle /\ NormIdle /\ EnumIdle /\ PlaceIdle /\ CliIdle /\ WorkIdle /\ StampIdle /\ GuiIdle

Init == InitBatch /\ PermIdle /\ MiniIdle /\ ExtIdle

Next == NextBatch

Spec == Init /\ [][Next]_vars

(* the grouper applied to two enumeration orders of the same items *)
GroupA ==
    /\ UNCHANGED <<batchVars, miniVars, extVars>>
    /\ pcP = "start"
    /\ resA' = Grouper(orderA, stampP, PermFiles, thrP)
    /\ pcP' = "a"
    /\ UNCHANGED <<orderA, orderB, stampP, thrP, resB>>

GroupB ==
    /\ UNCHANGED <<batchVars, miniVars, extVars>>
    /\ pcP = "a"
    /\ resB' = Grouper(orderB, stampP, PermFiles, thrP)
    /\ pcP' = "done"
    /\ UNCHANGED <<orderA, orderB, stampP, thrP, resA>>

NextPerm == GroupA \/ GroupB

InitP == BatchIdle /\ InitPerm /\ MiniIdle /\ ExtIdle

SpecPerm == InitP /\ [][NextPerm]_vars

InitM == BatchIdle /\ PermIdle /\ InitMini /\ ExtIdle

SpecMini == InitM /\ [][NextMini]_vars

----------------------------------------------------------------------------
(* Derived views of the batch state used by the properties *)

GroupIdx == 1..Len(groups)

Members(gi) == Range(groups[gi])

Grouped == UNION {Members(gi) : gi \in GroupIdx}

(* items the scan has visited and did not skip, in scan order *)
Visited == SelectSeq(SubSeq(image_files, 1, pos), LAMBDA p : p \notin skipped)

Gap(P, j) == stamp[P[j + 1]] - stamp[P[j]]

(* positions a..b of P form a chain: every consecutive pair is within t *)
IsChain(P, a, b, t) == \A j \in a..(b - 1) : Gap(P, j) <= t

(* the chain cannot be extended to the left / to the right *)
OpensRun(P, a, t) == a = 1 \/ Gap(P, a - 1) > t
ClosedRun(P, b, t) == b < Len(P) /\ Gap(P, b) > t

ScanOver == pc \notin {"sort", "scan"}

(* the relocation loop is past group gi *)
GroupFinished(gi) == pc = "done" \/ (pc \in {"reloc", "move"} /\ idx > gi)

Attempted == moved \cup failed

(* a finished group was either skipped for a reason of its own (directory not
   created, first file unresolvable) or every member was handed to shutil.move *)
GroupHandled(gi) ==
    \/ gi \in mkdir_failed
    \/ groups[gi][1] \notin readable /\ Members(gi) \cap Attempted = {}
    \/ Members(gi) \subseteq Attempted

----------------------------------------------------------------------------
(* C1: every run appended to `groups` has at least 5 members, whether it was
   closed by a gap larger than the threshold or closed after the scan. *)
C1_EmittedRunsHaveFive == \A gi \in GroupIdx : Len(groups[gi]) >= 5

(* a run was emitted and a shorter candidate run was discarded *)
C1_Witness ==
    /\ ScanOver
    /\ Len(groups) >= 1
    /\ skipped = {}
    /\ SumLen(groups) < total_files

(* C2: runs are maximal chains under the threshold: inside every emitted run
   and inside the run being built each consecutive pair is at most t apart
   (equality included), every run starts right after a gap larger than t (or
   at the first item), every emitted run ends right before a gap larger than
   t (or at the last item), and every such chain of 5 or more is emitted. *)
C2_RunsAreMaximalChains ==
    pc # "sort" =>
    LET P == Visited
        t == TIME_DIFF_THRESHOLD
        Closed(b) == ClosedRun(P, b, t) \/ (ScanOver /\ b = Len(P))
    IN  /\ \A gi \in GroupIdx :
              \E a \in 1..Len(P) : \E b \in a..Len(P) :
                  /\ groups[gi] = SubSeq(P, a, b)
                  /\ IsChain(P, a, b, t)
                  /\ OpensRun(P, a, t)
                  /\ Closed(b)
        /\ \A a \in 1..Len(P) : \A b \in a..Len(P) :
              (/\ IsChain(P, a, b, t) /\ OpensRun(P, a, t) /\ Closed(b)
               /\ b - a + 1 >= 5)
                  => \E gi \in GroupIdx : groups[gi] = SubSeq(P, a, b)
        /\ (pc = "scan" /\ P # <<>>) =>
              \E a \in 1..Len(P) :
                  /\ current_group = SubSeq(P, a, Len(P))
                  /\ IsChain(P, a, Len(P), t)
                  /\ OpensRun(P, a, t)

(* two runs were emitted with the in-run gaps exactly equal to the threshold *)
C2_Witness ==
    /\ ScanOver
    /\ Len(groups) = 2
    /\ TIME_DIFF_THRESHOLD = 1
    /\ Gap(Visited, 1) = TIME_DIFF_THRESHOLD

(* C3: the batch never terminates abnormally before the summary. *)
C3_NeverTerminatesAbnormally == pc # "crashed"

(* C4: the 'images moved' count of the summary equals the number of files that
   were actually moved. *)
C4_MovedCountIsActual == pc = "done" => summary.moved = Cardinality(moved)

(* C5: an item whose timestamp resolves to absent is in no run, the step that
   skips it leaves the run being built, the emitted runs and last_timestamp
   untouched, and the summary counts it among the singles. *)
C5_AbsentItemExcluded ==
    /\ [](/\ skipped \cap (Grouped \cup Range(current_group)) = {}
          /\ (pc = "done" /\ total_files > 0) =>
                /\ summary.singles = Cardinality(Range(image_files) \ Grouped)
                /\ skipped \subseteq Range(image_files) \ Grouped)
    /\ [][skipped' # skipped =>
            UNCHANGED <<groups, current_group, last_timestamp>>]_vars

(* an item between two members of an emitted run was skipped, and the batch
   produced its summary *)
C5_Witness ==
    /\ pc = "done"
    /\ \E gi \in GroupIdx : \E p \in skipped :
          \E a, b, c \in 1..Len(image_files) :
              /\ a < b /\ b < c
              /\ image_files[b] = p
              /\ image_files[a] \in Members(gi)
              /\ image_files[c] \in Members(gi)

(* C7: a failed move is swallowed: the batch does not crash after it, the
   remaining files of the run are still handed to shutil.move, and every later
   run is still processed. *)
C7_MoveFailureSwallowed ==
    /\ failed # {} => pc # "crashed"
    /\ (pc = "move" /\ Members(idx) \cap failed # {}) =>
          \A j \in 1..(k - 1) : groups[idx][j] \in Attempted
    /\ \A gi \in GroupIdx : \A gj \in gi..Len(groups) :
          (Members(gi) \cap failed # {} /\ GroupFinished(gj)) => GroupHandled(gj)

(* a move failed in the first run, the files after it and the whole second run
   were moved *)
C7_Witness ==
    /\ pc = "done"
    /\ Len(groups) = 2
    /\ \E j \in 1..4 :
          /\ groups[1][j] \in failed
          /\ \A j2 \in (j + 1)..Len(groups[1]) : groups[1][j2] \in moved
    /\ Members(2) \subseteq moved

(* C8: when the destination directory of a run cannot be created the run is
   skipped: none of its files is handed to shutil.move or appears in the
   destination, they stay at their source paths (up to files deleted by
   somebody else), and the loop goes on with the remaining runs. *)
C8_MakedirsFailureSkipsRun ==
    /\ \A gi \in mkdir_failed :
          /\ Members(gi) \cap Attempted = {}
          /\ \A e \in dest : e.content \notin Members(gi)
          /\ Cardinality(Members(gi) \ at_source) <= faults - Cardinality(mkdir_failed)
          /\ GroupFinished(gi)
    /\ mkdir_failed # {} =>
          /\ pc # "crashed"
          /\ \A gj \in GroupIdx : GroupFinished(gj) => GroupHandled(gj)

(* the first run's directory could not be created, its files are all still at
   the source, and the second run was moved completely *)
C8_Witness ==
    /\ pc = "done"
    /\ Len(groups) = 2
    /\ 1 \in mkdir_failed
    /\ Members(1) \subseteq at_source
    /\ Members(2) \subseteq moved

(* the file about to be moved has a same-named file in the destination
   directory that was there before the batch *)
Collides ==
    /\ pc = "move"
    /\ \E e \in dest :
          /\ e.dir = group_dir
          /\ e.name = basename(groups[idx][k])
          /\ e.content = Preexisting(e.name)

(* C9: when the destination directory already holds a file with the name of
   the file being moved, the move of that file fails: the existing file is left
   untouched and the source file stays where it was. *)
C9_CollidingMoveFails ==
    [][(Collides /\ (k' # k \/ pc' # pc)) =>
          /\ dest' = dest
          /\ groups[idx][k] \in failed'
          /\ groups[idx][k] \in at_source => groups[idx][k] \in at_source']_vars

(* C6: grouping does not depend on the enumeration order: two orders of the
   same (path, timestamp) items give the same sequence of runs, member by
   member. *)
C6_SameRunsForAnyOrder == pcP = "done" => resA = resB

(* C10: the summary reported after a cancellation states the number of groups
   actually relocated and the number of images actually moved. *)
C10_SummaryCountsRelocated ==
    (m_pc = "done" /\ exit_requested /\ m_status # NoSummary) =>
        /\ m_status.moved = Cardinality(m_moved)
        /\ m_status.groups =
              Cardinality({gi \in 1..Len(m_groups) : Range(m_groups[gi]) \cap m_moved # {}})

(* C19: two distinct runs of one batch never share a destination directory:
   files of different runs always lie in directories with different names,
   and the name in use carries the index of the run being moved. *)
C19_DistinctRunsDistinctDirs ==
    /\ pc = "move" => group_dir.idx = idx
    /\ \A e1, e2 \in dest : \A g1, g2 \in GroupIdx :
          (e1.content \in Members(g1) /\ e2.content \in Members(g2) /\ g1 # g2)
              => e1.dir # e2.dir

(* two runs with the same place, the same minute and the same size were both
   moved, into two directories *)
C19_Witness ==
    /\ pc = "done"
    /\ Len(groups) = 2
    /\ \E e1, e2 \in dest :
          /\ e1.content \in Members(1)
          /\ e2.content \in Members(2)
          /\ e1.dir.place = e2.dir.place
          /\ e1.dir.time = e2.dir.time
          /\ e1.dir.count = e2.dir.count

----------------------------------------------------------------------------
(* Threshold handling of imgsetsortr.0-4-0.py: process_images_cli sets the
   global from args.increment, the GUI sets it in update_thresholds from the
   entry field.  Unit of this machine: one hundredth of a second. *)

UnitsPerSecond == 100

(* the floor 0.01 of max(0.01, val) *)
ThresholdFloor == 1

(* entry values range over -MaxEntry..MaxEntry hundredths and the default *)
MaxEntry == 2

(* gap comparisons one batch makes at most *)
MaxCompares == 2

DefaultThresholdCs == DefaultThreshold * UnitsPerSecond

Max(a, b) == IF a >= b THEN a ELSE b

(* a text float() accepts, and one it rejects *)
Text(v) == [parses |-> TRUE, val |-> v]

Garbage == [parses |-> FALSE, val |-> 0]

Numbers == ((0 - MaxEntry)..MaxEntry) \cup {DefaultThresholdCs}

Typed == {Text(v) : v \in Numbers} \cup {Garbage}

(* mutant: an invalid input resets the threshold to the default *)
OnInvalidInput_reset(prev) == DefaultThresholdCs

(* except Exception: logger.warning("Invalid time diff input, keeping previous") *)
OnInvalidInput(prev) == prev

(* the value of TIME_DIFF_THRESHOLD after update_thresholds() *)
update_thresholds(text, prev) ==
    IF text.parses THEN Max(ThresholdFloor, text.val) ELSE OnInvalidInput(prev)

(* ghost: the threshold an unparsable entry has to leave in place *)
KeptAfter(text, prev, kp) ==
    IF text.parses THEN {} ELSE IF kp = {} THEN {prev} ELSE kp

InitThr ==
    /\ mode \in {"cli", "gui"}
    /\ increment \in Numbers
    /\ time_diff_var = Text(0)
    /\ TIME_DIFF_THRESHOLD_cs = DefaultThresholdCs
    /\ compared = {} /\ comparisons_left = 0 /\ kept = {}
    /\ batch_threshold = DefaultThresholdCs /\ batch_compared = {}
    /\ thr_pc = "main"

(* main: args.source given -> process_images_cli(source, recurse, increment, output) *)
RunCli ==
    /\ UNCHANGED thrFrame
    /\ mode = "cli" /\ thr_pc = "main"
    /\ TIME_DIFF_THRESHOLD_cs' = increment
    /\ batch_threshold' = increment
    /\ batch_compared' = {}
    /\ compared' = {}
    /\ comparisons_left' = MaxCompares
    /\ thr_pc' = "scan"
    /\ UNCHANGED <<mode, increment, time_diff_var, kept>>

(* main: GUI mode, time_diff_var = StringVar(value=str(TIME_DIFF_THRESHOLD)) *)
OpenGui ==
    /\ UNCHANGED thrFrame
    /\ mode = "gui" /\ thr_pc = "main"
    /\ time_diff_var' = Text(TIME_DIFF_THRESHOLD_cs)
    /\ thr_pc' = "idle"
    /\ UNCHANGED <<mode, increment, TIME_DIFF_THRESHOLD_cs, compared, comparisons_left, kept,
                   batch_threshold, batch_compared>>

(* the user edits the entry field *)
TypeEntry ==
    /\ UNCHANGED thrFrame
    /\ mode = "gui" /\ thr_pc \in {"idle", "scan"}
    /\ \E t \in Typed : t # time_diff_var /\ time_diff_var' = t
    /\ UNCHANGED <<mode, increment, TIME_DIFF_THRESHOLD_cs, compared, comparisons_left, kept,
                   batch_threshold, batch_compared, thr_pc>>

(* <FocusOut> / <Return> on the entry field: update_thresholds() *)
EntryCommit ==
    /\ UNCHANGED thrFrame
    /\ mode = "gui" /\ thr_pc \in {"idle", "scan"}
    /\ TIME_DIFF_THRESHOLD_cs' = update_thresholds(time_diff_var, TIME_DIFF_THRESHOLD_cs)
    /\ kept' = KeptAfter(time_diff_var, TIME_DIFF_THRESHOLD_cs, kept)
    /\ compared' = {}
    /\ UNCHANGED <<mode, increment, time_diff_var, comparisons_left, batch_threshold, batch_compared, thr_pc>>

(* start_grouping up to the start of the worker; one worker is followed *)
StartGroupingThr ==
    /\ UNCHANGED thrFrame
    /\ mode = "gui" /\ thr_pc = "idle"
    /\ \E folders_ok \in BOOLEAN :
          IF ~folders_ok
          THEN UNCHANGED thrVars
          ELSE /\ TIME_DIFF_THRESHOLD_cs' = update_thresholds(time_diff_var, TIME_DIFF_THRESHOLD_cs)
               /\ kept' = KeptAfter(time_diff_var, TIME_DIFF_THRESHOLD_cs, kept)
               /\ batch_threshold' = update_thresholds(time_diff_var, TIME_DIFF_THRESHOLD_cs)
               /\ batch_compared' = {}
               /\ compared' = {}
               /\ comparisons_left' = MaxCompares
               /\ thr_pc' = "scan"
               /\ UNCHANGED <<mode, increment, time_diff_var>>

(* if time_diff <= TIME_DIFF_THRESHOLD: the scan reads the global *)
Compare ==
    /\ UNCHANGED thrFrame
    /\ thr_pc = "scan" /\ comparisons_left > 0
    /\ compared' = compared \cup {TIME_DIFF_THRESHOLD_cs}
    /\ batch_compared' = batch_compared \cup {TIME_DIFF_THRESHOLD_cs}
    /\ comparisons_left' = comparisons_left - 1
    /\ UNCHANGED <<mode, increment, time_diff_var, TIME_DIFF_THRESHOLD_cs, kept, batch_threshold, thr_pc>>

(* the scan loop is over *)
FinishBatch ==
    /\ UNCHANGED thrFrame
    /\ thr_pc = "scan"
    /\ thr_pc' = IF mode = "cli" THEN "done" ELSE "idle"
    /\ comparisons_left' = 0
    /\ UNCHANGED <<mode, increment, time_diff_var, TIME_DIFF_THRESHOLD_cs, compared, kept,
                   batch_threshold, batch_compared>>

NextThr ==
    \/ RunCli
    \/ OpenGui
    \/ TypeEntry
    \/ EntryCommit
    \/ StartGroupingThr
    \/ Compare
    \/ FinishBatch

InitT == BatchIdle /\ PermIdle /\ MiniIdle /\ InitThr /\ PauseIdle /\ TsIdle /\ NormIdle /\ EnumIdle /\ PlaceIdle /\ CliIdle /\ WorkIdle /\ StampIdle /\ GuiIdle

SpecThr == InitT /\ [][NextThr]_vars

(* C12: every gap comparison of the scan reads a threshold of at least 0.01 s,
   in GUI mode and in CLI mode. *)
C12_ThresholdAtLeastFloor ==
    \A t \in compared : t >= ThresholdFloor

(* C13: when update_thresholds runs on an entry that does not parse, the
   threshold keeps the value it had before the call, and the comparisons of
   the batch that follows read that value. *)
C13_UnparsableInputIgnored ==
    /\ [](kept # {} => (TIME_DIFF_THRESHOLD_cs \in kept /\ compared \subseteq kept))
    /\ [][((EntryCommit \/ StartGroupingThr) /\ ~time_diff_var.parses)
             => TIME_DIFF_THRESHOLD_cs' = TIME_DIFF_THRESHOLD_cs]_vars

(* a batch started on an unparsable entry has made a comparison, with a
   threshold that is not the default *)
C13_Witness ==
    /\ thr_pc = "scan"
    /\ ~time_diff_var.parses
    /\ kept # {} /\ compared # {}
    /\ TIME_DIFF_THRESHOLD_cs # DefaultThresholdCs

----------------------------------------------------------------------------
(* Pause and elapsed-time accounting of the GUI worker of
   imgsetsortr.0-4-0.py: pause_or_continue on the main thread, task() and
   its progress_callback on the worker thread.  Time is in ticks. *)

MaxClock == 4

MaxItems == 2

(* now - start_time - total_paused_time[0], with the list that the name
   total_paused_time denotes inside task(): the one task() creates *)
Elapsed(n, st, tp) == n - st - tp

(* the snapshot update_progress receives, next to the elapsed value due:
   time since the batch started minus the time the pause flag was set *)
Snapshot(e, fin) ==
    [elapsed |-> e, due |-> now - start_time - paused_ticks, final |-> fin]

InitPause ==
    /\ now = 0 /\ start_time = 0
    /\ pause_event = TRUE
    /\ pause_start_time = None /\ total_paused_time = 0
    /\ task_total_paused_time = 0
    /\ snapshot = [elapsed |-> 0, due |-> 0, final |-> FALSE]
    /\ paused_ticks = 0 /\ items_left = 0
    /\ pz_pc = "gui"

(* the clock advances; the pause flag is set while pause_event is cleared *)
Tick ==
    /\ UNCHANGED pauseFrame
    /\ now < MaxClock
    /\ now' = now + 1
    /\ paused_ticks' = IF pz_pc \in {"scan", "poll"} /\ ~pause_event
                       THEN paused_ticks + 1 ELSE paused_ticks
    /\ UNCHANGED <<start_time, pause_event, pause_start_time, total_paused_time,
                   task_total_paused_time, snapshot, items_left, pz_pc>>

(* pause_or_continue: the Pause / Continue button *)
PauseOrContinue ==
    /\ UNCHANGED pauseFrame
    /\ IF pause_event
       THEN /\ pause_event' = FALSE
            /\ pause_start_time' = now
            /\ UNCHANGED total_paused_time
       ELSE /\ pause_event' = TRUE
            /\ IF pause_start_time # None
               THEN /\ total_paused_time' = total_paused_time + (now - pause_start_time)
                    /\ pause_start_time' = None
               ELSE UNCHANGED <<total_paused_time, pause_start_time>>
    /\ UNCHANGED <<now, start_time, task_total_paused_time, snapshot, paused_ticks,
                   items_left, pz_pc>>

(* task(): start_time = time.time(); update_progress(0, 0, None, 0, total);
   processed = [0]; total_paused_time = [0]; pause_start_time = [None] *)
StartTask ==
    /\ UNCHANGED pauseFrame
    /\ pz_pc = "gui"
    /\ start_time' = now
    /\ task_total_paused_time' = 0
    /\ paused_ticks' = 0
    /\ snapshot' = [elapsed |-> 0, due |-> 0, final |-> FALSE]
    /\ \E n \in 1..MaxItems : items_left' = n
    /\ pz_pc' = "scan"
    /\ UNCHANGED <<now, pause_event, pause_start_time, total_paused_time>>

(* one item of the scan loop, up to the pause poll *)
VisitItem ==
    /\ UNCHANGED pauseFrame
    /\ pz_pc = "scan" /\ items_left > 0
    /\ items_left' = items_left - 1
    /\ pz_pc' = "poll"
    /\ UNCHANGED <<now, start_time, pause_event, pause_start_time, total_paused_time,
                   task_total_paused_time, snapshot, paused_ticks>>

(* while not pause_event.is_set(): time.sleep(0.1) is left, then
   progress_callback(value) hands its elapsed to update_progress *)
ProgressCallback ==
    /\ UNCHANGED pauseFrame
    /\ pz_pc = "poll" /\ pause_event
    /\ snapshot' = Snapshot(Max(0, Elapsed(now, start_time, task_total_paused_time)), FALSE)
    /\ pz_pc' = "scan"
    /\ UNCHANGED <<now, start_time, pause_event, pause_start_time, total_paused_time,
                   task_total_paused_time, paused_ticks, items_left>>

(* after the relocation: elapsed = time.time() - start_time - total_paused_time[0];
   update_progress(100, elapsed, 0, total_files, total_files) *)
FinalSnapshot ==
    /\ UNCHANGED pauseFrame
    /\ pz_pc = "scan" /\ items_left = 0
    /\ snapshot' = Snapshot(Elapsed(now, start_time, task_total_paused_time), TRUE)
    /\ pz_pc' = "done"
    /\ UNCHANGED <<now, start_time, pause_event, pause_start_time, total_paused_time,
                   task_total_paused_time, paused_ticks, items_left>>

NextPause ==
    \/ Tick
    \/ PauseOrContinue
    \/ StartTask
    \/ VisitItem
    \/ ProgressCallback
    \/ FinalSnapshot

InitPz == BatchIdle /\ PermIdle /\ MiniIdle /\ ThrIdle /\ InitPause /\ TsIdle /\ NormIdle /\ EnumIdle /\ PlaceIdle /\ CliIdle /\ WorkIdle /\ StampIdle /\ GuiIdle

SpecPause == InitPz /\ [][NextPause]_vars

(* C11: the elapsed value of every progress snapshot and of the final
   snapshot is the time since the batch started minus the time the pause
   flag was set during the batch. *)
C11_PausedTimeExcluded ==
    snapshot.elapsed = snapshot.due

----------------------------------------------------------------------------
(* get_image_timestamp of imgsetsortr.0-4-0.py as a function of what the
   file system and exifread answer for the path. *)

MaxTs == 2

(* the answers for one path: does open(path, 'rb') succeed, does
   exifread.process_file return, what is tags.get('EXIF DateTimeOriginal')
   (absent, not matching the format, a date with a year outside
   2000..current_year + 1, a valid date), does os.path.getmtime succeed *)
DateKinds == {"absent", "malformed", "year_out_of_range", "valid"}

TsFiles ==
    [opens : BOOLEAN, exif_reads : BOOLEAN, date_str : DateKinds,
     exif_time : 0..MaxTs, mtime_ok : BOOLEAN, mtime : 0..MaxTs]

(* mtime = datetime.fromtimestamp(os.path.getmtime(path)); an OSError is
   caught by the outer except Exception, which returns None *)
MtimeOrNone(f) == IF f.mtime_ok THEN f.mtime ELSE None

get_image_timestamp_tiers(f) ==
    IF ~f.opens THEN None                        \* open raises: outer except
    ELSE IF ~f.exif_reads THEN None              \* process_file raises: outer except
    ELSE CASE f.date_str = "valid" -> f.exif_time
           [] f.date_str = "year_out_of_range" -> MtimeOrNone(f)
           [] f.date_str = "malformed" -> MtimeOrNone(f)   \* except ValueError
           [] f.date_str = "absent" -> MtimeOrNone(f)

InitTimestamp ==
    /\ ts_file \in TsFiles
    /\ ts_result = None
    /\ ts_pc = "call"

GetImageTimestamp ==
    /\ UNCHANGED tsFrame
    /\ ts_pc = "call"
    /\ ts_result' = get_image_timestamp_tiers(ts_file)
    /\ ts_pc' = "returned"
    /\ UNCHANGED ts_file

NextTs == GetImageTimestamp

InitTs == BatchIdle /\ PermIdle /\ MiniIdle /\ ThrIdle /\ PauseIdle /\ InitTimestamp /\ NormIdle /\ EnumIdle /\ PlaceIdle /\ CliIdle /\ WorkIdle /\ StampIdle /\ GuiIdle

SpecTs == InitTs /\ [][NextTs]_vars

(* an error while opening the file, reading its metadata or parsing the
   capture time *)
TsError(f) == ~f.opens \/ ~f.exif_reads \/ f.date_str = "malformed"

(* C14: an error while opening, reading or parsing leads to the modification
   time being returned, and the result is absent only when the modification
   time cannot be obtained. *)
C14_ErrorsFallBackToMtime ==
    ts_pc = "returned" =>
        /\ (TsError(ts_file) /\ ts_file.mtime_ok) => ts_result = ts_file.mtime
        /\ ts_result = None => ~ts_file.mtime_ok

----------------------------------------------------------------------------
(* normalize_location of get_place_from_exif_or_xmp.  A string is a sequence
   of characters; the characters stand for the classes the function tells
   apart. *)

MaxLen == 3

LowerLetters ==
    {"a", "b", "c", "e", "g", "i", "k", "m", "n", "o", "p", "r", "s", "t", "u", "w", "y"}

(* "I_dot" is U+0130, LATIN CAPITAL LETTER I WITH DOT ABOVE; str.lower()
   turns it into "i" followed by U+0307, COMBINING DOT ABOVE *)
UpperLetters == {"A", "I_dot"}

(* \w of the pattern [^\w\s-]: letters, digits and the underscore; a
   combining mark is not a word character *)
IsWord(c) == c \in LowerLetters \cup UpperLetters \cup {"_"}

(* \s, and the separators of str.split() *)
IsSpace(c) == c = " "

Alphabet == {"a", "A", "-", " ", "!", "I_dot"}

Unknown == <<"u", "n", "k", "n", "o", "w", "n">>

StringsUpTo(n) == UNION {[1..m -> Alphabet] : m \in 0..n}

(* re.sub(r'[^\w\s-]', '', location) *)
RemoveInvalid(str) ==
    SelectSeq(str, LAMBDA c : IsWord(c) \/ IsSpace(c) \/ c = "-")

(* str.lower() of one character *)
LowerChar(c) ==
    CASE c = "A" -> <<"a">>
      [] c = "I_dot" -> <<"i", "dot_above">>
      [] OTHER -> <<c>>

RECURSIVE Lower(_)
Lower(str) ==
    IF str = <<>> THEN <<>> ELSE LowerChar(Head(str)) \o Lower(Tail(str))

(* location.split(): the maximal runs of non-space characters *)
RECURSIVE Split(_, _)
Split(str, word) ==
    IF str = <<>>
    THEN IF word = <<>> THEN <<>> ELSE <<word>>
    ELSE IF IsSpace(Head(str))
         THEN (IF word = <<>> THEN <<>> ELSE <<word>>) \o Split(Tail(str), <<>>)
         ELSE Split(Tail(str), Append(word, Head(str)))

(* '-'.join(words) *)
RECURSIVE Join(_)
Join(words) ==
    IF words = <<>> THEN <<>>
    ELSE IF Len(words) = 1 THEN words[1]
    ELSE words[1] \o <<"-">> \o Join(Tail(words))

(* .strip() is absorbed by split(): leading and trailing spaces yield no word *)
normalize_location(location) ==
    IF location = <<>> THEN Unknown
    ELSE LET cleaned == RemoveInvalid(location)
             words == Split(cleaned, <<>>)
             joined == Join([w \in 1..Len(words) |-> Lower(words[w])])
         IN IF joined = <<>> THEN Unknown ELSE joined

InitNorm ==
    /\ n_input \in StringsUpTo(MaxLen) \cup {Unknown}
    /\ n_once = <<>> /\ n_twice = <<>>
    /\ n_pc = "input"

NormalizeOnce ==
    /\ UNCHANGED normFrame
    /\ n_pc = "input"
    /\ n_once' = normalize_location(n_input)
    /\ n_pc' = "once"
    /\ UNCHANGED <<n_input, n_twice>>

NormalizeTwice ==
    /\ UNCHANGED normFrame
    /\ n_pc = "once"
    /\ n_twice' = normalize_location(n_once)
    /\ n_pc' = "twice"
    /\ UNCHANGED <<n_input, n_once>>

NextNorm == NormalizeOnce \/ NormalizeTwice

InitN == BatchIdle /\ PermIdle /\ MiniIdle /\ ThrIdle /\ PauseIdle /\ TsIdle /\ InitNorm /\ EnumIdle /\ PlaceIdle /\ CliIdle /\ WorkIdle /\ StampIdle /\ GuiIdle

SpecNorm == InitN /\ [][NextNorm]_vars

(* C18: normalising an already normalised label gives the same label, for
   every input string, and "unknown" is a fixed point. *)
C18_NormalizeIdempotent ==
    /\ n_pc = "twice" => n_twice = n_once
    /\ (n_pc = "once" /\ n_input = Unknown) => n_once = Unknown

----------------------------------------------------------------------------
(* The enumerator of imgsetsortr.0-4-0.py: get_image_files and
   get_image_files_by_folder.  A directory is the sequence of directory names
   that leads to it from the source folder; every directory holds one image
   file and, with e_other, one file that is no image. *)

MaxDepth == 2

GroupsMarker == "_groups"

DirNames == {GroupsMarker, "a"}

AllDirs == UNION {[1..d -> DirNames] : d \in 0..MaxDepth}

Parent(d) == SubSeq(d, 1, Len(d) - 1)

(* the directory trees: sets of directories closed under Parent *)
Trees ==
    {t \in SUBSET AllDirs :
        /\ <<>> \in t
        /\ \A d \in t : d # <<>> => Parent(d) \in t}

ImageName == "x.jpg"

OtherName == "n.txt"

(* os.listdir(d) / the files of os.walk for d *)
FilesOf(other) == IF other THEN {ImageName, OtherName} ELSE {ImageName}

(* f.lower().endswith((".jpg", ".jpeg", ".png")) *)
IsImageName(f) == f = ImageName

(* os.path.basename(root); the source folder itself is not named _groups *)
DirBasename(d) == IF d = <<>> THEN "source" ELSE d[Len(d)]

(* for root, dirs, files in os.walk(directory): every directory of the tree
   is yielded, dirs is never pruned;
   if os.path.basename(root) in ["_groups"]: continue *)
Walked(tree) ==
    {d \in tree : DirBasename(d) \notin {GroupsMarker}}

get_image_files(tree, recursive, other) ==
    IF recursive
    THEN {Path(d, f) : d \in Walked(tree), f \in {g \in FilesOf(other) : IsImageName(g)}}
    ELSE {Path(<<>>, f) : f \in {g \in FilesOf(other) : IsImageName(g)}}

InitEnum ==
    /\ e_tree \in Trees
    /\ e_recursive \in BOOLEAN
    /\ e_other \in BOOLEAN
    /\ e_returned = {}
    /\ e_pc = "call"

GetImageFiles ==
    /\ UNCHANGED enumFrame
    /\ e_pc = "call"
    /\ e_returned' = get_image_files(e_tree, e_recursive, e_other)
    /\ e_pc' = "returned"
    /\ UNCHANGED <<e_tree, e_recursive, e_other>>

NextEnum == GetImageFiles

InitE == BatchIdle /\ PermIdle /\ MiniIdle /\ ThrIdle /\ PauseIdle /\ TsIdle /\ NormIdle /\ InitEnum /\ PlaceIdle /\ CliIdle /\ WorkIdle /\ StampIdle /\ GuiIdle

SpecEnum == InitE /\ [][NextEnum]_vars

(* C20: in recursive mode no returned path lies in or anywhere beneath a
   directory named _groups. *)
C20_NothingBeneathGroups ==
    (e_pc = "returned" /\ e_recursive) =>
        \A p \in e_returned : \A i \in 1..Len(p.dir) : p.dir[i] # GroupsMarker

----------------------------------------------------------------------------
(* get_place_from_exif_or_xmp of imgsetsortr.0-4-0.py with the module-level
   geocode_cache.  Labels are strings in the sense of normalize_location;
   a coordinate is a number of thirds of a millionth of a degree. *)

MaxCalls == 3

MaxRaw == 3

MaxDirs == 2

(* round(x, 6): the nearest millionth *)
Round6(raw) == (raw + 1) \div 3

Coords == [lat : 0..MaxRaw, lon : {0}]

Keys == {<<Round6(c.lat), Round6(c.lon)>> : c \in Coords}

(* mutant: the cache key is the unrounded pair *)
CacheKey_unrounded(latitude, longitude) == <<latitude, longitude>>

(* cache_key = (round(latitude, 6), round(longitude, 6)) *)
CacheKey(latitude, longitude) == <<Round6(latitude), Round6(longitude)>>

(* values a metadata field can hold: a place name, and a text without any
   word character *)
MetaValues == {<<"A", "n", "a">>, <<"!">>}

(* place names the geocoder can answer with *)
NetPlaces == {<<"k", "i">>, <<"n", "o">>}

(* parent directory names *)
DirPlace == <<"c", "i", "t", "y">>

DirGeneric == <<"r", "a", "w">>

DirGroups == <<"_", "g", "r", "o", "u", "p", "s">>

GroupsPrefix == <<"_", "g", "r", "o", "u", "p", "s">>

generic_names ==
    { <<"_", "c", "o", "p", "y">>, <<"s", "u", "b">>, <<"t", "e", "m", "p">>,
      <<"b", "a", "c", "k", "u", "p">>, <<"r", "a", "w">> }

max_levels == 5

DirChains == UNION {[1..n -> {DirPlace, DirGeneric, DirGroups}] : n \in 0..MaxDirs}

NoValue == [kind |-> "none", val |-> <<>>]

Raises == [kind |-> "raises", val |-> <<>>]

Value(v) == [kind |-> "value", val |-> v]

(* what the libraries and the file system answer for one file: the XMP read
   (raises, no location field, a location), open() / exifread (succeeds or
   raises), the EXIF text fields, the GPS tags (none, not convertible by
   gps_to_decimal, coordinates), the parent directories from the nearest up *)
PlaceFiles ==
    [xmp : {NoValue, Raises} \cup {Value(v) : v \in MetaValues},
     opens : BOOLEAN,
     exif : {NoValue, Value(<<"A", "n", "a">>)},
     gps : {[kind |-> "none", lat |-> 0, lon |-> 0], [kind |-> "bad", lat |-> 0, lon |-> 0]}
             \cup {[kind |-> "coords", lat |-> c.lat, lon |-> c.lon] : c \in Coords},
     dirs : DirChains]

(* what geolocator.reverse does: raises GeocoderTimedOut / GeocoderUnavailable,
   raises another exception, returns nothing with an address, returns an
   address whose first populated place field is val (<<>>: none populated) *)
NetAnswers ==
    {[kind |-> nk, val |-> <<>>] : nk \in {"timeout", "error", "no_address"}}
        \cup {[kind |-> "address", val |-> v] : v \in NetPlaces \cup {<<>>}}

StartsWith(str, prefix) ==
    /\ Len(str) >= Len(prefix)
    /\ SubSeq(str, 1, Len(prefix)) = prefix

(* the directory fallback: while current_dir and level < max_levels *)
RECURSIVE DirTier(_, _)
DirTier(dirs, level) ==
    IF dirs = <<>> \/ level >= max_levels THEN Unknown
    ELSE LET dir_name == Head(dirs)
             normalized_dir == normalize_location(dir_name)
         IN IF /\ dir_name # <<>>
               /\ ~StartsWith(dir_name, GroupsPrefix)
               /\ normalized_dir \notin generic_names
            THEN normalize_location(dir_name)
            ELSE DirTier(Tail(dirs), level + 1)

(* address.get("suburb") or ... or address.get("village") or "unknown" *)
PlaceOf(val) == IF val = <<>> THEN Unknown ELSE val

Outcome(result, cache, tier, looked_up) ==
    [result |-> result, cache |-> cache, tier |-> tier, looked_up |-> looked_up]

(* the coordinate tier: cache, then reverse geocoding *)
GpsTier(f, net, cache) ==
    LET cache_key == CacheKey(f.gps.lat, f.gps.lon)
    IN IF cache_key \in DOMAIN cache
       THEN Outcome(normalize_location(cache[cache_key]), cache, "cache", FALSE)
       ELSE CASE net.kind = "address" ->
                   LET place == PlaceOf(net.val)
                   IN Outcome(normalize_location(place),
                              (cache_key :> place) @@ cache, "geocode", TRUE)
              [] net.kind \in {"timeout", "no_address"} ->
                   Outcome(DirTier(f.dirs, 0), cache, "dir", TRUE)
              [] net.kind = "error" ->       \* outer except Exception
                   Outcome(Unknown, cache, "error", TRUE)

get_place_from_exif_or_xmp_tiers(f, net, cache) ==
    IF f.xmp.kind = "value"
    THEN Outcome(normalize_location(f.xmp.val), cache, "xmp", FALSE)
    ELSE IF ~f.opens                         \* outer except Exception
    THEN Outcome(Unknown, cache, "error", FALSE)
    ELSE IF f.exif.kind = "value"
    THEN Outcome(normalize_location(f.exif.val), cache, "exif", FALSE)
    ELSE IF f.gps.kind = "coords"
    THEN GpsTier(f, net, cache)
    ELSE Outcome(DirTier(f.dirs, 0), cache, "dir", FALSE)

(* the file gets as far as the coordinate tier, with usable coordinates *)
ReachesGps(f) ==
    /\ f.xmp.kind # "value" /\ f.opens /\ f.exif.kind # "value"
    /\ f.gps.kind = "coords"

(* inputs a call can read: a tier that returns or raises keeps the later
   tiers from being consulted, and the geocoder is only asked by a file that
   reaches the coordinate tier; what is never read is held fixed *)
ReadBy(f, net) ==
    /\ f.xmp.kind = "value" => (f.opens /\ f.exif = NoValue /\ f.gps.kind = "none")
    /\ ~f.opens => (f.exif = NoValue /\ f.gps.kind = "none")
    /\ f.exif.kind = "value" => f.gps.kind = "none"
    /\ ~ReachesGps(f) => net.kind = "no_address"

PlaceCalls == {c \in PlaceFiles \X NetAnswers : ReadBy(c[1], c[2])}

NoLast ==
    [result |-> Unknown, dir_label |-> Unknown, tier |-> "none", net |-> "none",
     looked_up |-> FALSE, reached_gps |-> FALSE, cache_grew |-> FALSE]

InitPlace ==
    /\ geocode_cache = [x \in {} |-> Unknown]
    /\ calls = 0
    /\ lookups = [x \in Keys |-> 0]
    /\ ok_lookups = [x \in Keys |-> 0]
    /\ gps_labels = [x \in Keys |-> {}]
    /\ cached_labels = [x \in Keys |-> {}]
    /\ last = NoLast

(* an address without any populated place field is told apart *)
NetKind(net) ==
    IF net.kind = "address" /\ net.val = <<>> THEN "no_field" ELSE net.kind

(* the bookkeeping after a call on file f with geocoder answer net *)
Recorded(f, net, out) ==
    LET key == <<Round6(f.gps.lat), Round6(f.gps.lon)>>
        reached == ReachesGps(f)
        answered == out.looked_up /\ net.kind = "address"
    IN /\ geocode_cache' = out.cache
       /\ calls' = calls + 1
       /\ lookups' = IF out.looked_up
                     THEN [lookups EXCEPT ![key] = @ + 1] ELSE lookups
       /\ ok_lookups' = IF answered
                        THEN [ok_lookups EXCEPT ![key] = @ + 1] ELSE ok_lookups
       /\ gps_labels' = IF reached
                        THEN [gps_labels EXCEPT ![key] = @ \cup {out.result}]
                        ELSE gps_labels
       /\ cached_labels' =
              IF reached /\ (answered \/ ok_lookups[key] > 0)
              THEN [cached_labels EXCEPT ![key] = @ \cup {out.result}]
              ELSE cached_labels
       /\ last' = [result |-> out.result, dir_label |-> DirTier(f.dirs, 0),
                   tier |-> out.tier,
                   net |-> IF out.looked_up THEN NetKind(net) ELSE "none",
                   looked_up |-> out.looked_up, reached_gps |-> reached,
                   cache_grew |-> out.cache # geocode_cache]

(* one call of get_place_from_exif_or_xmp(file_path) *)
ResolvePlace ==
    /\ UNCHANGED placeFrame
    /\ calls < MaxCalls
    /\ \E c \in PlaceCalls :
          \E out \in {get_place_from_exif_or_xmp_tiers(c[1], c[2], geocode_cache)} :
              Recorded(c[1], c[2], out)

NextPlace == ResolvePlace

InitPl == BatchIdle /\ PermIdle /\ MiniIdle /\ ThrIdle /\ PauseIdle /\ TsIdle /\ NormIdle /\ EnumIdle /\ InitPlace /\ CliIdle /\ WorkIdle /\ StampIdle /\ GuiIdle

SpecPlace == InitPl /\ [][NextPlace]_vars

(* C15: the resolver returns "unknown" only when every tier, the directory
   fallback included, has failed to produce a label: a tier that yields no
   usable value or raises never ends the chain early. *)
C15_UnknownOnlyWhenAllTiersFail ==
    (last.tier # "none" /\ last.result = Unknown) => last.dir_label = Unknown

(* C16 as stated: files whose coordinates round to the same pair and that
   reach the coordinate tier get one label, and the pair triggers at most one
   lookup in total. *)
C16_OneLookupOneLabel ==
    \A key \in Keys :
        /\ lookups[key] <= 1
        /\ Cardinality(gps_labels[key]) <= 1

(* C16 amended: at most one lookup per rounded pair returns an address; from
   that lookup on, every file of the pair that reaches the coordinate tier
   gets the normalised cached place, and no further lookup is made. *)
C16_AnsweredPairIsCached ==
    /\ [](\A key \in Keys :
             /\ ok_lookups[key] <= 1
             /\ ok_lookups[key] = 1 =>
                   /\ key \in DOMAIN geocode_cache
                   /\ cached_labels[key] = {normalize_location(geocode_cache[key])})
    /\ [][\A key \in Keys :
             ok_lookups[key] = 1 => lookups'[key] = lookups[key]]_vars

(* a lookup of the pair failed, a later one returned an address, and a third
   file of the pair was then served from the cache *)
C16_Witness ==
    /\ last.tier = "cache"
    /\ \E key \in Keys :
          /\ lookups[key] = 2 /\ ok_lookups[key] = 1
          /\ Cardinality(gps_labels[key]) = 2
          /\ Cardinality(cached_labels[key]) = 1

(* C17: no cached value is "unknown"; a lookup that times out, is
   unavailable or yields no populated place field adds no cache entry and the
   resolution goes on with the directory tier. *)
C17_CacheHoldsNoFailure ==
    /\ \A key \in DOMAIN geocode_cache : geocode_cache[key] # Unknown
    /\ last.net \in {"timeout", "no_address", "no_field"} =>
          (~last.cache_grew /\ last.result = last.dir_label)

----------------------------------------------------------------------------
(* the emitted runs, and during the scan the run being built *)
Runs == IF pc = "scan" /\ current_group # <<>>
        THEN Append(groups, current_group) ELSE groups

IsSegmentOf(g, sq) ==
    \E a \in 0..Len(sq) :
        /\ a + Len(g) <= Len(sq)
        /\ g = SubSeq(sq, a + 1, a + Len(g))

(* C30: at every step the emitted runs and the run being built are pairwise
   disjoint segments of the sorted sequence (of its items that have a
   timestamp), no file is in two of them, and the summary satisfies
   images moved + singles left = total files with singles left >= 0. *)
C30_RunsDisjointFilesConserved ==
    /\ \A i \in 1..Len(Runs) :
          /\ IsSegmentOf(Runs[i], Visited)
          /\ Cardinality(Range(Runs[i])) = Len(Runs[i])
    /\ \A i, j \in 1..Len(Runs) :
          i # j => Range(Runs[i]) \cap Range(Runs[j]) = {}
    /\ pc = "done" =>
          /\ summary.moved + summary.singles = total_files
          /\ summary.singles >= 0

(* a run has been emitted and the scan is building the next one *)
C30_Witness ==
    /\ pc = "scan"
    /\ Len(groups) = 1
    /\ Len(current_group) >= 2

----------------------------------------------------------------------------
(* process_images_cli of imgsetsortr.0-4-0.py run on one source folder with
   the default output source/_groups, a first time and then again.  A
   directory is the sequence of the names that lead to it from the source
   folder; a name is a sequence of tokens, so that the name of a group folder
   can be put together from its parts. *)

NumRootC == 5

MaxStampC == 2

MaxRuns == 2

(* a subfolder of the source folder *)
SubDir == << <<"album">> >>

(* output = os.path.join(source, "_groups") *)
OutputDir == << <<GroupsMarker>> >>

Entry(d, n, i) == [dir |-> d, name |-> n, id |-> i]

PathOf(e) == Path(e.dir, e.name)

IdsOf(fs) == {e.id : e \in fs}

(* the source folder holds NumRootC images; the subfolder may hold one image
   with the base name of an image of the source folder *)
RootEntries == {Entry(<<>>, n, n) : n \in 1..NumRootC}

SubEntry == Entry(SubDir, 1, NumRootC + 1)

(* folder_name = f"{place}_{date_time_str}_{idx:02d}_{count}" as tokens *)
FolderToken(place, first_time, i, c) == place \o <<DateTimeStr(first_time), i, c>>

(* the directory tier of get_place_from_exif_or_xmp for files without
   location metadata: the nearest parent whose name does not start with
   _groups; a group folder name is made of a normalised place, digits, '-'
   and '_', which normalize_location leaves as they are *)
RECURSIVE PlaceOfDir(_)
PlaceOfDir(d) ==
    IF d = <<>> THEN <<"source">>
    ELSE IF Head(d[Len(d)]) = GroupsMarker THEN PlaceOfDir(Parent(d))
    ELSE d[Len(d)]

(* get_image_files_by_folder: os.walk skips the directory whose base name is
   _groups and nothing else; without recursion os.listdir(source) *)
EnumeratedBy(fs, recursive) ==
    IF recursive
    THEN {e \in fs : e.dir = <<>> \/ Head(e.dir[Len(e.dir)]) # GroupsMarker \/ Len(e.dir[Len(e.dir)]) > 1}
    ELSE {e \in fs : e.dir = <<>>}

(* image_files in one enumeration order *)
RECURSIVE SetToSeq(_)
SetToSeq(S) ==
    IF S = {} THEN <<>>
    ELSE LET x == CHOOSE y \in S : TRUE IN <<x>> \o SetToSeq(S \ {x})

(* shutil.move(file, os.path.join(group_dir, os.path.basename(file))) for
   every file of the group; a file already at the destination path is
   replaced; a source that is gone raises, is logged, and the loop goes on *)
RECURSIVE MoveFiles(_, _, _, _)
MoveFiles(fs, files, gdir, moves) ==
    IF files = <<>> THEN [fs |-> fs, moves |-> moves]
    ELSE LET p == Head(files)
             here == {e \in fs : PathOf(e) = p}
         IN IF here = {}
            THEN MoveFiles(fs, Tail(files), gdir, moves)
            ELSE LET e == CHOOSE x \in here : TRUE
                     there == {x \in fs : x.dir = gdir /\ x.name = p.name}
                 IN MoveFiles(((fs \ {e}) \ there) \cup {Entry(gdir, p.name, e.id)},
                              Tail(files), gdir, moves + 1)

(* for idx, group in enumerate(groups, 1): name the folder after group[0] *)
RECURSIVE MoveGroups(_, _, _, _, _)
MoveGroups(fs, gs, i, moves, st) ==
    IF i > Len(gs) THEN [fs |-> fs, moves |-> moves]
    ELSE LET group == gs[i]
             place == PlaceOfDir(group[1].dir)
             folder_name == FolderToken(place, st[group[1]], i, Len(group))
             gdir == Append(OutputDir, folder_name)
             after == MoveFiles(fs, group, gdir, moves)
         IN MoveGroups(after.fs, gs, i + 1, after.moves, st)

(* mutant: a failure to create the output folder is logged and the run goes on *)
OnOutputFailure_ignored == [pc |-> "batch", exit |-> None]

(* except Exception: ... sys.exit(1) *)
OnOutputFailure == [pc |-> "exited", exit |-> 1]

InitCli ==
    /\ c_source_exists \in BOOLEAN
    /\ c_output_ok \in BOOLEAN
    /\ c_recursive \in BOOLEAN
    /\ c_fs \in (IF c_source_exists
                 THEN {RootEntries, RootEntries \cup {SubEntry}} ELSE {{}})
    /\ c_stamp \in [IdsOf(c_fs) -> 0..MaxStampC]
    /\ c_fs0 = c_fs
    /\ c_run = 1
    /\ c_enumerated = {} /\ c_groups = <<>> /\ c_moves = 0
    /\ c_exit = None
    /\ c_pc = "validate"

(* if not os.path.isdir(source): ... sys.exit(1) *)
ValidateSource ==
    /\ UNCHANGED cliFrame
    /\ c_pc = "validate"
    /\ IF c_source_exists
       THEN c_pc' = "makedirs" /\ c_exit' = c_exit
       ELSE c_pc' = "exited" /\ c_exit' = 1
    /\ UNCHANGED <<c_source_exists, c_output_ok, c_recursive, c_stamp, c_fs, c_fs0,
                   c_run, c_enumerated, c_groups, c_moves>>

(* os.makedirs(output, exist_ok=True) *)
MakeOutput ==
    /\ UNCHANGED cliFrame
    /\ c_pc = "makedirs"
    /\ IF c_output_ok
       THEN c_pc' = "batch" /\ c_exit' = c_exit
       ELSE c_pc' = OnOutputFailure.pc /\ c_exit' = OnOutputFailure.exit
    /\ UNCHANGED <<c_source_exists, c_output_ok, c_recursive, c_stamp, c_fs, c_fs0,
                   c_run, c_enumerated, c_groups, c_moves>>

(* enumeration, sort, scan, relocation and summary of one run *)
RunBatch ==
    /\ UNCHANGED cliFrame
    /\ c_pc = "batch"
    /\ LET files == EnumeratedBy(c_fs, c_recursive)
           paths == {PathOf(e) : e \in files}
           st == [p \in paths |-> c_stamp[(CHOOSE e \in files : PathOf(e) = p).id]]
           gs == Grouper(SetToSeq(paths), st, paths, DefaultThreshold)
       IN \E after \in {MoveGroups(c_fs, gs, 1, 0, st)} :
             /\ c_enumerated' = files
             /\ c_groups' = gs
             /\ c_fs' = after.fs
             /\ c_moves' = after.moves
    /\ c_exit' = 0
    /\ c_pc' = "done"
    /\ UNCHANGED <<c_source_exists, c_output_ok, c_recursive, c_stamp, c_fs0, c_run>>

(* the same command is run again on the same source folder *)
RunAgain ==
    /\ UNCHANGED cliFrame
    /\ c_pc = "done"
    /\ c_run < MaxRuns
    /\ c_run' = c_run + 1
    /\ c_fs0' = c_fs
    /\ c_enumerated' = {} /\ c_groups' = <<>> /\ c_moves' = 0
    /\ c_exit' = None
    /\ c_pc' = "validate"
    /\ UNCHANGED <<c_source_exists, c_output_ok, c_recursive, c_stamp, c_fs>>

NextCli ==
    \/ ValidateSource
    \/ MakeOutput
    \/ RunBatch
    \/ RunAgain

InitC == BatchIdle /\ PermIdle /\ MiniIdle /\ ThrIdle /\ PauseIdle /\ TsIdle /\ NormIdle /\ EnumIdle /\ PlaceIdle /\ InitCli /\ WorkIdle /\ StampIdle /\ GuiIdle

SpecCli == InitC /\ [][NextCli]_vars

(* C21: when the source folder does not exist or the output folder cannot be
   created, the command-line run ends with exit status 1 and has enumerated
   no file, formed no group, moved no file and left every file where it was;
   a run reaches enumeration only with an existing source folder and a
   created output folder, and only such a run ends with status 0. *)
C21_ExitBeforeAnyWork ==
    /\ c_pc \in {"batch", "done"} => c_source_exists /\ c_output_ok
    /\ c_exit = 0 => c_source_exists /\ c_output_ok
    /\ c_pc = "exited" =>
          /\ ~c_source_exists \/ ~c_output_ok
          /\ c_exit = 1
          /\ c_enumerated = {} /\ c_groups = <<>> /\ c_moves = 0
          /\ c_fs = c_fs0

C21_Witness ==
    /\ c_pc = "exited" /\ c_exit = 1
    /\ c_source_exists /\ ~c_output_ok
    /\ c_fs # {}

(* C26: when a run is over, every file it enumerated exists exactly once, at
   its source path or in a folder of the output. *)
C26_NoFileOverwrittenOrLost ==
    c_pc = "done" =>
        \A e \in c_enumerated : Cardinality({x \in c_fs : x.id = e.id}) = 1

(* C28: a second run on the same source with the same threshold and the
   default output, after a first run that lost no file, forms no group and
   moves no file. *)
C28_SecondRunMovesNothing ==
    (c_run = 2 /\ c_pc = "done" /\ IdsOf(c_fs0) = DOMAIN c_stamp) =>
        c_groups = <<>> /\ c_moves = 0

(* C27: every gap comparison of a batch started from the window reads the
   threshold that was in effect when the batch started. *)
C27_BatchUsesStartThreshold ==
    (mode = "gui" /\ thr_pc = "scan") => batch_compared \subseteq {batch_threshold}

----------------------------------------------------------------------------
(* The worker task() of the GUI of imgsetsortr.0-4-0.py next to the Pause
   button: which units of work it does while the pause is on, and which of
   them a progress snapshot follows.  pause_event is set while the worker may
   run and cleared while the pause is on. *)

MaxItemsW == 3

MaxGroupsW == 2

(* mutant: the poll never finds the event set *)
PollPasses_never(ev) == FALSE

(* while not pause_event.is_set(): time.sleep(0.1) *)
PollPasses(ev) == ev

InitWork ==
    /\ w_pause_event = TRUE
    /\ w_items_left = 0 /\ w_groups_left = 0
    /\ w_unreported = 0 /\ w_items_since_pause = 0 /\ w_groups_since_pause = 0
    /\ w_paused_once = FALSE
    /\ w_pc = "gui"

(* pause_or_continue: the Pause / Continue button *)
PauseOrContinueW ==
    /\ UNCHANGED workFrame
    /\ w_pause_event' = ~w_pause_event
    /\ IF w_pause_event
       THEN /\ w_items_since_pause' = 0 /\ w_groups_since_pause' = 0
            /\ w_paused_once' = (w_paused_once \/ w_pc \in {"scan", "poll", "relocate"})
       ELSE UNCHANGED <<w_items_since_pause, w_groups_since_pause, w_paused_once>>
    /\ UNCHANGED <<w_items_left, w_groups_left, w_unreported, w_pc>>

(* start_grouping starts task(); update_progress(0, 0, None, 0, total_files) *)
StartWorker ==
    /\ UNCHANGED workFrame
    /\ w_pc = "gui"
    /\ \E n \in 1..MaxItemsW : w_items_left' = n
    /\ w_unreported' = 0
    /\ w_items_since_pause' = 0 /\ w_groups_since_pause' = 0
    /\ w_paused_once' = ~w_pause_event
    /\ w_pc' = "scan"
    /\ UNCHANGED <<w_pause_event, w_groups_left>>

(* one iteration of the scan loop up to the poll; an item without timestamp
   ends the iteration at `continue`, before the poll and the callback *)
VisitItemW ==
    /\ UNCHANGED workFrame
    /\ w_pc = "scan" /\ w_items_left > 0
    /\ w_items_left' = w_items_left - 1
    /\ w_unreported' = w_unreported + 1
    /\ \E has_timestamp \in BOOLEAN :
          IF has_timestamp
          THEN /\ w_items_since_pause' =
                     IF w_pause_event THEN w_items_since_pause ELSE w_items_since_pause + 1
               /\ w_pc' = "poll"
          ELSE UNCHANGED <<w_items_since_pause, w_pc>>
    /\ UNCHANGED <<w_pause_event, w_groups_left, w_groups_since_pause, w_paused_once>>

(* the poll finds pause_event set; progress_callback(value) *)
ProgressCallbackW ==
    /\ UNCHANGED workFrame
    /\ w_pc = "poll" /\ PollPasses(w_pause_event)
    /\ w_unreported' = 0
    /\ w_pc' = "scan"
    /\ UNCHANGED <<w_pause_event, w_items_left, w_groups_left, w_items_since_pause,
                   w_groups_since_pause, w_paused_once>>

(* the scan loop is over: the last run is closed, groups is complete *)
ScanOverW ==
    /\ UNCHANGED workFrame
    /\ w_pc = "scan" /\ w_items_left = 0
    /\ \E n \in 0..MaxGroupsW : w_groups_left' = n
    /\ w_pc' = "relocate"
    /\ UNCHANGED <<w_pause_event, w_items_left, w_unreported, w_items_since_pause,
                   w_groups_since_pause, w_paused_once>>

(* one iteration of the relocation loop: makedirs and the moves of a group;
   the loop neither polls pause_event nor calls progress_callback *)
RelocateGroup ==
    /\ UNCHANGED workFrame
    /\ w_pc = "relocate" /\ w_groups_left > 0
    /\ w_groups_left' = w_groups_left - 1
    /\ w_unreported' = w_unreported + 1
    /\ w_groups_since_pause' =
          IF w_pause_event THEN w_groups_since_pause ELSE w_groups_since_pause + 1
    /\ UNCHANGED <<w_pause_event, w_items_left, w_items_since_pause, w_paused_once, w_pc>>

(* update_progress(100, elapsed, 0, total_files, total_files) and the summary *)
SummaryW ==
    /\ UNCHANGED workFrame
    /\ w_pc = "relocate" /\ w_groups_left = 0
    /\ w_unreported' = 0
    /\ w_pc' = "done"
    /\ UNCHANGED <<w_pause_event, w_items_left, w_groups_left, w_items_since_pause,
                   w_groups_since_pause, w_paused_once>>

NextWork ==
    \/ PauseOrContinueW
    \/ StartWorker
    \/ VisitItemW
    \/ ProgressCallbackW
    \/ ScanOverW
    \/ RelocateGroup
    \/ SummaryW

InitW == BatchIdle /\ PermIdle /\ MiniIdle /\ ThrIdle /\ PauseIdle /\ TsIdle /\ NormIdle /\ EnumIdle /\ PlaceIdle /\ CliIdle /\ InitWork /\ StampIdle /\ GuiIdle

SpecWork == InitW /\ [][NextWork]_vars

(* the steps of the worker thread *)
WorkerStep == VisitItemW \/ ProgressCallbackW \/ ScanOverW \/ RelocateGroup \/ SummaryW

(* the worker thread is scheduled again and again *)
SpecWorkLive == InitW /\ [][NextWork]_vars /\ WF_vars(WorkerStep)

(* C22: while the pause is on, the worker classifies at most the item it was
   at when the pause began and starts the relocation of no group. *)
C22_PausedWorkerDoesNoFurtherWork ==
    ~w_pause_event => (w_items_since_pause <= 1 /\ w_groups_since_pause = 0)

(* C23: a progress snapshot follows every file the scan visits and every
   group that is relocated, before the next file or group: never more than
   one unit of work is without its snapshot, and none when the batch is over. *)
C23_SnapshotAfterEveryUnit ==
    /\ w_unreported <= 1
    /\ w_pc = "done" => w_unreported = 0

(* C29 as stated: under weak fairness of the worker, if every pause is
   followed by a resume, a started batch finishes with its summary. *)
C29_FinishesIfEveryPauseResumed ==
    [](~w_pause_event => <>w_pause_event) => ((w_pc = "scan") ~> (w_pc = "done"))

(* C29 amended: under weak fairness of the worker, if from some moment on the
   pause stays off, a started batch finishes with its summary. *)
C29_FinishesIfPauseEndsForGood ==
    <>[]w_pause_event => ((w_pc = "scan") ~> (w_pc = "done"))

(* a batch that was paused on its way has finished *)
C29_Witness ==
    w_pc = "done" /\ w_paused_once /\ w_pause_event

----------------------------------------------------------------------------
(* One file of a batch of imgsetsortr.0-4-0.py that opens an emitted run:
   get_image_timestamp is called for it in the sort key, in its scan
   iteration and when its group's directory is named, while other programs
   may change the file. *)

MaxStampS == 3

(* what get_image_timestamp can return: a time or None *)
StampValues == (0..MaxStampS) \cup {None}

(* key=lambda x: (get_image_timestamp(x) or datetime.max, ...) *)
SortKeyTime(v) == IF v = None THEN DatetimeMax ELSE v

InitStamp ==
    /\ s_on_disk \in StampValues
    /\ s_sort_key = None /\ s_curr_time = None /\ s_first_time = None
    /\ s_pc = "sort"

(* another program rewrites, touches, removes or restores the file *)
FileChanges ==
    /\ UNCHANGED stampFrame
    /\ s_pc \in {"sort", "scan", "name"}
    /\ \E v \in StampValues : v # s_on_disk /\ s_on_disk' = v
    /\ UNCHANGED <<s_sort_key, s_curr_time, s_first_time, s_pc>>

(* image_files.sort(key=...) evaluates the key of the file *)
ReadForSort ==
    /\ UNCHANGED stampFrame
    /\ s_pc = "sort"
    /\ s_sort_key' = SortKeyTime(s_on_disk)
    /\ s_pc' = "scan"
    /\ UNCHANGED <<s_on_disk, s_curr_time, s_first_time>>

(* curr_time = get_image_timestamp(path); None: the file is skipped *)
ReadForScan ==
    /\ UNCHANGED stampFrame
    /\ s_pc = "scan"
    /\ s_curr_time' = s_on_disk
    /\ s_pc' = IF s_on_disk = None THEN "skipped" ELSE "name"
    /\ UNCHANGED <<s_on_disk, s_sort_key, s_first_time>>

(* first_time = get_image_timestamp(group[0]); if first_time: ... *)
ReadForName ==
    /\ UNCHANGED stampFrame
    /\ s_pc = "name"
    /\ s_first_time' = s_on_disk
    /\ s_pc' = IF s_on_disk = None THEN "unnamed" ELSE "named"
    /\ UNCHANGED <<s_on_disk, s_sort_key, s_curr_time>>

NextStamp ==
    \/ FileChanges
    \/ ReadForSort
    \/ ReadForScan
    \/ ReadForName

InitS == BatchIdle /\ PermIdle /\ MiniIdle /\ ThrIdle /\ PauseIdle /\ TsIdle /\ NormIdle /\ EnumIdle /\ PlaceIdle /\ CliIdle /\ WorkIdle /\ InitStamp /\ GuiIdle

SpecStamp == InitS /\ [][NextStamp]_vars

(* C24: the timestamp in a file's sort key, the one its gap comparison uses
   and the one its group's directory is named after are the same value,
   whatever happens to the file during the batch. *)
C24_OneTimestampPerFile ==
    /\ s_pc \in {"name", "named", "unnamed"} => s_sort_key = s_curr_time
    /\ s_pc \in {"named", "unnamed"} => s_first_time = s_curr_time

----------------------------------------------------------------------------
(* The Start button of the two window programs and the worker threads it
   starts: start_grouping of imgsetsortr.0-4-0.py and of
   imgsetsortr.0-0-4_mini.py. *)

MaxStarts == 4

Versions == {"0-4-0", "0-0-4_mini"}

(* a thread is alive from Thread(...).start() until its target returns *)
Alive(threads) == {w \in 1..Len(threads) : threads[w] # "finished"}

(* may this click start a thread: the mini program returns when
   self.running is set; 0-4-0 only checks the selected folders *)
StartAllowed(version, folders_ok, is_running) ==
    IF version = "0-0-4_mini" THEN ~is_running ELSE folders_ok

InitGui ==
    /\ g_version \in Versions
    /\ g_folders_ok = FALSE
    /\ g_running = FALSE
    /\ g_threads = <<>>
    /\ g_pc = "window"

(* select_folder / browse_folder: the user picks the folders *)
SelectFolders ==
    /\ UNCHANGED guiFrame
    /\ g_pc = "window" /\ ~g_folders_ok
    /\ g_folders_ok' = TRUE
    /\ UNCHANGED <<g_version, g_running, g_threads, g_pc>>

(* a click on Start: start_grouping() on the main thread *)
ClickStart ==
    /\ UNCHANGED guiFrame
    /\ g_pc = "window"
    /\ Len(g_threads) < MaxStarts
    /\ StartAllowed(g_version, g_folders_ok, g_running)
    /\ g_threads' = Append(g_threads, "scan")
    /\ g_running' = IF g_version = "0-0-4_mini" THEN TRUE ELSE g_running
    /\ UNCHANGED <<g_version, g_folders_ok, g_pc>>

(* a worker ends its scan; the mini worker returns at once when no folder
   is selected, clearing self.running *)
WorkerScans ==
    /\ UNCHANGED guiFrame
    /\ \E w \in 1..Len(g_threads) :
          /\ g_threads[w] = "scan"
          /\ IF g_version = "0-0-4_mini" /\ ~g_folders_ok
             THEN /\ g_threads' = [g_threads EXCEPT ![w] = "finished"]
                  /\ g_running' = FALSE
             ELSE /\ g_threads' = [g_threads EXCEPT ![w] = "relocate"]
                  /\ UNCHANGED g_running
    /\ UNCHANGED <<g_version, g_folders_ok, g_pc>>

(* a worker ends its relocation loop and returns; the mini worker clears
   self.running *)
WorkerReturns ==
    /\ UNCHANGED guiFrame
    /\ \E w \in 1..Len(g_threads) :
          /\ g_threads[w] = "relocate"
          /\ g_threads' = [g_threads EXCEPT ![w] = "finished"]
    /\ g_running' = IF g_version = "0-0-4_mini" THEN FALSE ELSE g_running
    /\ UNCHANGED <<g_version, g_folders_ok, g_pc>>

NextGui ==
    \/ SelectFolders
    \/ ClickStart
    \/ WorkerScans
    \/ WorkerReturns

InitG == BatchIdle /\ PermIdle /\ MiniIdle /\ ThrIdle /\ PauseIdle /\ TsIdle /\ NormIdle /\ EnumIdle /\ PlaceIdle /\ CliIdle /\ WorkIdle /\ StampIdle /\ InitGui

SpecGui == InitG /\ [][NextGui]_vars

(* C25: at any time at most one worker thread is alive, whatever the user
   clicks, repeated Start included. *)
C25_AtMostOneWorker ==
    Cardinality(Alive(g_threads)) <= 1

====
